---- MODULE Spec2Model ----
(***************************************************************************)
(* EUDAMED XML generator: the Schema Index (lib/schema.js) and the Tree    *)
(* Generator (lib/generator.js).                                           *)
(*                                                                         *)
(* JavaScript values are tagged records, JavaScript objects keep their     *)
(* insertion order (a sequence of key/value entries), configuration paths  *)
(* and schema keys are strings handled character by character, as the code *)
(* handles them (startsWith, endsWith, split).                             *)
(***************************************************************************)
EXTENDS Integers, Sequences, FiniteSets, TLC

(***************************************************************************)
(* Bounds of the model.                                                    *)
(***************************************************************************)
\* largest number of entries of a flat configuration
MaxKeys == 2
\* largest array index that a configuration key of the universe mentions
MaxIdx == 2
\* call-stack depth after which the engine raises RangeError
MaxStack == 12

(***************************************************************************)
(* JavaScript values.                                                      *)
(***************************************************************************)
Undefined == [kind |-> "undefined"]
Null == [kind |-> "null"]
Str(s) == [kind |-> "string", text |-> s]
Num(s) == [kind |-> "number", text |-> s]
Bool(s) == [kind |-> "boolean", text |-> s]
Obj(es) == [kind |-> "object", entries |-> es]
Arr(xs) == [kind |-> "array", items |-> xs]
\* an exception in flight
Thrown(msg) == [kind |-> "error", message |-> msg]
IsThrown(v) == v.kind = "error"

\* JavaScript truthiness (ToBoolean)
Truthy(v) ==
    CASE v.kind = "undefined" -> FALSE
      [] v.kind = "null" -> FALSE
      [] v.kind = "string" -> v.text # ""
      [] v.kind = "number" -> v.text \notin {"0", "NaN"}
      [] v.kind = "boolean" -> v.text = "true"
      [] OTHER -> TRUE

(***************************************************************************)
(* JavaScript objects with insertion order: a sequence of [k, v] entries.  *)
(***************************************************************************)
Keys(es) == [i \in 1..Len(es) |-> es[i].k]
HasKey(es, key) == \E i \in 1..Len(es) : es[i].k = key
Get(es, key) ==
    IF HasKey(es, key)
    THEN es[CHOOSE i \in 1..Len(es) : es[i].k = key].v
    ELSE Undefined
\* obj[key] = val : an existing key keeps its position and takes the value
Put(es, key, val) ==
    IF HasKey(es, key)
    THEN [i \in 1..Len(es) |-> IF es[i].k = key THEN [k |-> key, v |-> val] ELSE es[i]]
    ELSE Append(es, [k |-> key, v |-> val])
RECURSIVE Assign(_, _)
\* Object.assign(target, source)
Assign(target, source) ==
    IF source = <<>> THEN target
    ELSE Assign(Put(target, Head(source).k, Head(source).v), Tail(source))

(***************************************************************************)
(* Strings.                                                                *)
(***************************************************************************)
StartsWith(s, p) == Len(s) >= Len(p) /\ SubSeq(s, 1, Len(p)) = p
EndsWith(s, p) == Len(s) >= Len(p) /\ SubSeq(s, Len(s) - Len(p) + 1, Len(s)) = p
Includes(s, c) == \E i \in 1..Len(s) : SubSeq(s, i, i + Len(c) - 1) = c
\* position of the first occurrence of the one-character string c at or
\* after position from, 0 when there is none
IndexFrom(s, c, from) ==
    IF \E i \in from..Len(s) : SubSeq(s, i, i) = c
    THEN CHOOSE i \in from..Len(s) :
            /\ SubSeq(s, i, i) = c
            /\ \A j \in from..(i - 1) : SubSeq(s, j, j) # c
    ELSE 0
\* s.split(c)[0]
SplitFirst(s, c) ==
    IF IndexFrom(s, c, 1) = 0 THEN s ELSE SubSeq(s, 1, IndexFrom(s, c, 1) - 1)
\* s.split(c)[1], with defined = FALSE when the array has no second element
SplitSecond(s, c) ==
    LET i == IndexFrom(s, c, 1)
        j == IF i = 0 THEN 0 ELSE IndexFrom(s, c, i + 1)
    IN  IF i = 0 THEN [defined |-> FALSE, text |-> ""]
        ELSE [defined |-> TRUE,
              text |-> SubSeq(s, i + 1, IF j = 0 THEN Len(s) ELSE j - 1)]
\* parseInt of an attribute literal; -1 stands for NaN
ParseInt(s) ==
    IF \E n \in 0..9 : ToString(n) = s
    THEN CHOOSE n \in 0..9 : ToString(n) = s
    ELSE -1

(***************************************************************************)
(* Parsed XSD nodes are records whose fields are the node's attributes     *)
(* (without the "@_" prefix of the parser) and its child lists (without    *)
(* the namespace prefix that ensureArray and the key searches ignore).     *)
(***************************************************************************)
Has(node, f) == f \in DOMAIN node
\* node['@_f'] is present and truthy
AttrSet(node, f) == Has(node, f) /\ node[f] # ""
ensureArray(root, keySuffix) == IF Has(root, keySuffix) THEN root[keySuffix] ELSE <<>>

(***************************************************************************)
(* File paths (Node's path module, POSIX flavour).                         *)
(***************************************************************************)
RECURSIVE SplitOn(_, _)
\* s.split(c) for a one-character separator
SplitOn(s, c) ==
    LET i == IndexFrom(s, c, 1)
    IN  IF i = 0 THEN <<s>>
        ELSE <<SubSeq(s, 1, i - 1)>> \o SplitOn(SubSeq(s, i + 1, Len(s)), c)
RECURSIVE NormSegs(_, _, _)
\* resolution of "", "." and ".." segments; a leading ".." survives only in
\* a relative path
NormSegs(segs, acc, absolute) ==
    IF segs = <<>> THEN acc
    ELSE LET h == Head(segs)
         IN  CASE h \in {"", "."} -> NormSegs(Tail(segs), acc, absolute)
               [] h = ".." ->
                    IF acc # <<>> /\ acc[Len(acc)] # ".."
                    THEN NormSegs(Tail(segs), SubSeq(acc, 1, Len(acc) - 1), absolute)
                    ELSE IF absolute THEN NormSegs(Tail(segs), acc, absolute)
                    ELSE NormSegs(Tail(segs), Append(acc, h), absolute)
               [] OTHER -> NormSegs(Tail(segs), Append(acc, h), absolute)
RECURSIVE JoinSegs(_)
JoinSegs(segs) ==
    IF segs = <<>> THEN ""
    ELSE IF Len(segs) = 1 THEN segs[1]
    ELSE segs[1] \o "/" \o JoinSegs(Tail(segs))
pathNormalize(p) ==
    LET absolute == StartsWith(p, "/")
        segs == NormSegs(SplitOn(p, "/"), <<>>, absolute)
    IN  IF absolute THEN "/" \o JoinSegs(segs)
        ELSE IF segs = <<>> THEN "." ELSE JoinSegs(segs)
pathJoin(a, b) == pathNormalize(a \o "/" \o b)
pathDirname(p) ==
    LET segs == SplitOn(p, "/")
    IN  IF Len(segs) = 1 THEN "."
        ELSE IF Len(segs) = 2 /\ segs[1] = "" THEN "/"
        ELSE JoinSegs(SubSeq(segs, 1, Len(segs) - 1))
pathResolve(base, p) ==
    IF StartsWith(p, "/") THEN pathNormalize(p) ELSE pathNormalize(base \o "/" \o p)

(***************************************************************************)
(* The schema files on disk, as the XML parser returns them.  main.xsd and *)
(* dev.xsd import each other; main.xsd also imports a file that does not   *)
(* exist and includes plain.xsd, a schema without target namespace that    *)
(* imports itself.  The local name InfoType is declared by three documents *)
(* and the prefix d is bound to two URIs.                                  *)
(***************************************************************************)
BasePath == "/w"
XsString == "xs:string"

RootElement ==
    [name |-> "Root",
     complexType |->
        [sequence |->
            [element |->
                << [name |-> "Child", type |-> XsString, minOccurs |-> "1"],
                   [name |-> "Other", type |-> XsString, minOccurs |-> "0"],
                   [name |-> "Items", type |-> "m:ItemType", minOccurs |-> "0",
                    maxOccurs |-> "unbounded"],
                   [name |-> "Tag", type |-> XsString, minOccurs |-> "1",
                    maxOccurs |-> "2"] >>]]]
ItemType ==
    [name |-> "ItemType",
     sequence |->
        [element |-> << [name |-> "v", type |-> XsString],
                        [name |-> "w", type |-> XsString] >>]]
PushElement == [name |-> "Push", type |-> "m:PushType"]
PushType ==
    [name |-> "PushType",
     attribute |-> << [name |-> "version"] >>,
     sequence |->
        [element |-> << [ref |-> "d:Device"],
                        [ref |-> "m:Nowhere"],
                        [name |-> "payload", type |-> "m:Ghost", minOccurs |-> "1"] >>,
         choice |-> << [element |-> << [name |-> "optA", type |-> XsString],
                                       [name |-> "optB", type |-> XsString] >>] >>,
         sequence |-> << [element |-> << [name |-> "note", type |-> "m:ItemType"] >>] >>,
         group |-> << [ref |-> "m:NoSuchGroup"], [ref |-> "m:Common"] >>]]
CommonGroup ==
    [name |-> "Common",
     sequence |-> [element |-> << [name |-> "note", type |-> XsString],
                                  [name |-> "optA", type |-> XsString] >>]]
\* a type of main.xsd with the local name of a type of dev.xsd
MainInfoType ==
    [name |-> "InfoType",
     sequence |-> [element |-> << [name |-> "remark", type |-> XsString] >>]]
MainXsd ==
    [schema |->
        [targetNamespace |-> "urn:m",
         xmlns |-> << [k |-> "xs", v |-> "urn:xs"], [k |-> "m", v |-> "urn:m"],
                      [k |-> "d", v |-> "urn:d"] >>,
         import |-> << [namespace |-> "urn:d", schemaLocation |-> "dev.xsd"],
                       [namespace |-> "urn:x", schemaLocation |-> "missing.xsd"] >>,
         include |-> << [schemaLocation |-> "plain.xsd"],
                        [schemaLocation |-> "part.xsd"] >>,
         element |-> << RootElement, PushElement,
                        [name |-> "MDRDevice", type |-> "d:MDRDeviceType"] >>,
         complexType |-> << ItemType, PushType, MainInfoType >>,
         group |-> << CommonGroup >>]]

DeviceType ==
    [name |-> "DeviceType",
     attribute |-> << [name |-> "id"], [name |-> "lang", fixed |-> ""] >>,
     sequence |->
        [element |-> << [name |-> "code", type |-> XsString, minOccurs |-> "1"],
                        [name |-> "Info", type |-> "d:InfoType", minOccurs |-> "0"] >>]]
InfoType ==
    [name |-> "InfoType",
     attribute |-> << [name |-> "unit", fixed |-> "mm"] >>,
     sequence |-> [element |-> << [name |-> "note", type |-> XsString] >>]]
MDRDeviceType ==
    [name |-> "MDRDeviceType",
     complexContent |->
        [extension |->
            [base |-> "d:DeviceType",
             attribute |-> << [name |-> "version", fixed |-> "1.0"],
                              [name |-> "id", fixed |-> "F"] >>,
             sequence |->
                [element |-> << [name |-> "model", type |-> "d:ModelName"] >>]]]]
NodeType ==
    [name |-> "NodeType",
     sequence |->
        [element |-> << [name |-> "label", type |-> XsString],
                        [name |-> "Node", type |-> "d:NodeType", minOccurs |-> "0"] >>]]
ModelName == [name |-> "ModelName", restriction |-> [base |-> XsString]]
EitherType == [name |-> "EitherType", union |-> [memberTypes |-> "xs:string xs:int"]]
ManyType == [name |-> "ManyType", list |-> [itemType |-> XsString]]
\* a type whose children have each kind of scalar type: none declared, a
\* union, a list, an inline restriction, a built-in with the xsd prefix
ScalarsType ==
    [name |-> "ScalarsType",
     sequence |->
        [element |-> << [name |-> "plain"],
                        [name |-> "either", type |-> "d:EitherType"],
                        [name |-> "many", type |-> "d:ManyType"],
                        [name |-> "inline",
                         simpleType |-> [restriction |-> [base |-> XsString]]],
                        [name |-> "count", type |-> "xsd:int"] >>]]
DevXsd ==
    [schema |->
        [targetNamespace |-> "urn:d",
         xmlns |-> << [k |-> "xs", v |-> "urn:xs"], [k |-> "d", v |-> "urn:d"] >>,
         import |-> << [namespace |-> "urn:m", schemaLocation |-> "main.xsd"] >>,
         element |-> << [name |-> "Device", type |-> "d:DeviceType", abstract |-> "true"],
                        [name |-> "Tree", type |-> "d:NodeType"] >>,
         complexType |-> << DeviceType, InfoType, MDRDeviceType, NodeType, ScalarsType >>,
         simpleType |-> << ModelName, EitherType, ManyType >>]]

\* a type of plain.xsd with the local name of a type of dev.xsd
PlainInfoType ==
    [name |-> "InfoType",
     sequence |-> [element |-> << [name |-> "text", type |-> XsString] >>]]
PlainXsd ==
    [schema |->
        [xmlns |-> << [k |-> "xs", v |-> "urn:xs"], [k |-> "d", v |-> "urn:other"] >>,
         import |-> << [schemaLocation |-> "plain.xsd"] >>,
         complexType |-> << PlainInfoType >>]]

\* a document included by main.xsd, of the same target namespace, which
\* is its default namespace: it declares no prefix for it
PartXsd ==
    [schema |->
        [targetNamespace |-> "urn:m",
         xmlns |-> << [k |-> "xs", v |-> "urn:xs"] >>]]

\* fs: full path -> parser.parse(readFileSync(path))
Files ==
    ("/w/xsd/main.xsd" :> MainXsd) @@ ("/w/xsd/dev.xsd" :> DevXsd)
        @@ ("/w/xsd/plain.xsd" :> PlainXsd) @@ ("/w/xsd/part.xsd" :> PartXsd)
\* the schema paths handed to loadSchema
EntryFiles == {"xsd/main.xsd", "xsd/dev.xsd"}

(***************************************************************************)
(* SchemaContext (lib/schema.js).  A definition's _schema is a reference   *)
(* to its schema root; the model keeps the root's attributes, which are    *)
(* all that is read through the reference.  reads is the history of the    *)
(* files that loadSchema read and parsed, in order; the code has no such   *)
(* field, it is what the file system saw.                                  *)
(***************************************************************************)
SchemaContext(basePath) ==
    [basePath |-> basePath, schemas |-> <<>>, elements |-> <<>>, types |-> <<>>,
     groups |-> <<>>, processedFiles |-> {}, reads |-> <<>>]
SchemaAttrs(schemaRoot) ==
    [f \in (DOMAIN schemaRoot) \cap {"targetNamespace", "xmlns"} |-> schemaRoot[f]]
\* { ...def, _schema: schemaRoot }
WithSchema(def, schemaRef) ==
    [f \in (DOMAIN def) \cup {"_schema"} |-> IF f = "_schema" THEN schemaRef ELSE def[f]]
\* a lookup result that is a definition (not undefined or null)
IsDef(x) == "kind" \notin DOMAIN x
NsKey(ns, name) == "{" \o ns \o "}" \o name

RECURSIVE indexDefs(_, _, _)
\* one of the four indexing loops of loadSchema over a table
indexDefs(table, defs, schemaRoot) ==
    IF defs = <<>> THEN table
    ELSE LET def == Head(defs)
             name == def.name
             key == IF AttrSet(schemaRoot, "targetNamespace")
                    THEN NsKey(schemaRoot.targetNamespace, name) ELSE name
             t1 == Put(table, key, WithSchema(def, SchemaAttrs(schemaRoot)))
             t2 == IF ~HasKey(t1, name) THEN Put(t1, name, Get(t1, key)) ELSE t1
         IN  IF AttrSet(def, "name")
             THEN indexDefs(t2, Tail(defs), schemaRoot)
             ELSE indexDefs(table, Tail(defs), schemaRoot)

RECURSIVE loadSchema(_, _)
RECURSIVE loadRefs(_, _, _)
\* loadSchema keeping and testing the processed files by the path it was
\* given instead of the resolved absolute path
loadSchemaByGivenPath(ctx, filePath) ==
    LET fullPath == pathResolve(ctx.basePath, filePath)
    IN  IF filePath \in ctx.processedFiles THEN ctx
        ELSE IF fullPath \notin DOMAIN Files THEN ctx
        ELSE IF ~Has(Files[fullPath], "schema")
        THEN [ctx EXCEPT !.reads = Append(@, fullPath)]
        ELSE LET schemaRoot == Files[fullPath].schema
                 targetNamespace == IF Has(schemaRoot, "targetNamespace")
                                    THEN schemaRoot.targetNamespace ELSE "undefined"
                 c1 == [ctx EXCEPT
                          !.reads = Append(@, fullPath),
                          !.processedFiles = @ \cup {filePath},
                          !.schemas = Put(@, targetNamespace, SchemaAttrs(schemaRoot))]
                 c2 == loadRefs(c1, filePath,
                                ensureArray(schemaRoot, "import")
                                    \o ensureArray(schemaRoot, "include"))
                 c3 == [c2 EXCEPT !.elements =
                          indexDefs(@, ensureArray(schemaRoot, "element"), schemaRoot)]
                 c4 == [c3 EXCEPT !.types =
                          indexDefs(@, ensureArray(schemaRoot, "complexType"), schemaRoot)]
                 c5 == [c4 EXCEPT !.types =
                          indexDefs(@, ensureArray(schemaRoot, "simpleType"), schemaRoot)]
             IN  [c5 EXCEPT !.groups =
                          indexDefs(@, ensureArray(schemaRoot, "group"), schemaRoot)]
\* loadRefs giving up the remaining imports and includes at a file that
\* does not exist
loadRefsStoppingAtMissing(ctx, filePath, refs) ==
    IF refs = <<>> THEN ctx
    ELSE LET ref == Head(refs)
             dir == pathDirname(filePath)
             missing == AttrSet(ref, "schemaLocation")
                        /\ pathResolve(ctx.basePath, pathJoin(dir, ref.schemaLocation))
                               \notin DOMAIN Files
             next == IF AttrSet(ref, "schemaLocation")
                     THEN loadSchema(ctx, pathJoin(dir, ref.schemaLocation))
                     ELSE ctx
         IN  IF missing THEN ctx ELSE loadRefs(next, filePath, Tail(refs))
\* the forEach over [...imports, ...includes]
loadRefs(ctx, filePath, refs) ==
    IF refs = <<>> THEN ctx
    ELSE LET ref == Head(refs)
             dir == pathDirname(filePath)
             next == IF AttrSet(ref, "schemaLocation")
                     THEN loadSchema(ctx, pathJoin(dir, ref.schemaLocation))
                     ELSE ctx
         IN  loadRefs(next, filePath, Tail(refs))
loadSchema(ctx, filePath) ==
    LET fullPath == pathResolve(ctx.basePath, filePath)
    IN  IF fullPath \in ctx.processedFiles THEN ctx
        ELSE IF fullPath \notin DOMAIN Files THEN ctx
        ELSE IF ~Has(Files[fullPath], "schema")
        THEN [ctx EXCEPT !.reads = Append(@, fullPath)]
        ELSE LET schemaRoot == Files[fullPath].schema
                 targetNamespace == IF Has(schemaRoot, "targetNamespace")
                                    THEN schemaRoot.targetNamespace ELSE "undefined"
                 c1 == [ctx EXCEPT
                          !.reads = Append(@, fullPath),
                          !.processedFiles = @ \cup {fullPath},
                          !.schemas = Put(@, targetNamespace, SchemaAttrs(schemaRoot))]
                 c2 == loadRefs(c1, filePath,
                                ensureArray(schemaRoot, "import")
                                    \o ensureArray(schemaRoot, "include"))
                 c3 == [c2 EXCEPT !.elements =
                          indexDefs(@, ensureArray(schemaRoot, "element"), schemaRoot)]
                 c4 == [c3 EXCEPT !.types =
                          indexDefs(@, ensureArray(schemaRoot, "complexType"), schemaRoot)]
                 c5 == [c4 EXCEPT !.types =
                          indexDefs(@, ensureArray(schemaRoot, "simpleType"), schemaRoot)]
             IN  [c5 EXCEPT !.groups =
                          indexDefs(@, ensureArray(schemaRoot, "group"), schemaRoot)]

RECURSIVE collectNamespaces(_, _)
\* the forEach of getNamespaces over Object.values(this.schemas):
\* namespaces[prefix] = schemaRoot['@_xmlns:' + prefix] for each declaration
collectNamespaces(namespaces, schemas) ==
    IF schemas = <<>> THEN namespaces
    ELSE collectNamespaces(IF Has(Head(schemas).v, "xmlns")
                           THEN Assign(namespaces, Head(schemas).v.xmlns)
                           ELSE namespaces,
                           Tail(schemas))
getNamespaces(ctx) == collectNamespaces(<<>>, ctx.schemas)

\* the part of a name after its first colon (name.split(':')[1]), or the
\* name itself when it has no colon
LocalName(name) == IF Includes(name, ":") THEN SplitSecond(name, ":").text ELSE name
\* Object.keys(table).find(k => k.endsWith('}' + localName) || k === localName)
FindLocal(table, localName) ==
    LET hits == {i \in 1..Len(table) :
                    EndsWith(table[i].k, "}" \o localName) \/ table[i].k = localName}
    IN  IF hits = {} THEN Undefined
        ELSE table[CHOOSE i \in hits : \A j \in hits : i <= j].v
getElement(ctx, name) ==
    IF name = "" THEN Null
    ELSE IF HasKey(ctx.elements, name) THEN Get(ctx.elements, name)
    ELSE LET hit == FindLocal(ctx.elements, LocalName(name))
         IN  IF IsDef(hit) THEN hit ELSE Null
getGroup(ctx, name) ==
    IF name = "" THEN Null
    ELSE IF HasKey(ctx.groups, name) THEN Get(ctx.groups, name)
    ELSE LET hit == FindLocal(ctx.groups, LocalName(name))
         IN  IF IsDef(hit) THEN hit ELSE Null
\* findType trying the bare local name before the namespaced key
findTypeByLocalNameFirst(ctx, name, currentSchema) ==
    IF name = "" THEN Null
    ELSE IF StartsWith(name, "xs:") \/ StartsWith(name, "xsd:")
    THEN [isSimple |-> TRUE, builtIn |-> TRUE, stubName |-> name]
    ELSE LET hasPrefix == Includes(name, ":")
             prefix == SplitFirst(name, ":")
             localName == IF hasPrefix THEN SplitSecond(name, ":").text ELSE name
             resolved == hasPrefix /\ IsDef(currentSchema)
                         /\ Has(currentSchema, "xmlns")
                         /\ HasKey(currentSchema.xmlns, prefix)
                         /\ Get(currentSchema.xmlns, prefix) # ""
             key == IF resolved
                    THEN NsKey(Get(currentSchema.xmlns, prefix), localName)
                    ELSE localName
         IN  IF HasKey(ctx.types, localName) THEN Get(ctx.types, localName)
             ELSE IF HasKey(ctx.types, key) THEN Get(ctx.types, key)
             ELSE FindLocal(ctx.types, localName)
findType(ctx, name, currentSchema) ==
    IF name = "" THEN Null
    ELSE IF StartsWith(name, "xs:") \/ StartsWith(name, "xsd:")
    THEN [isSimple |-> TRUE, builtIn |-> TRUE, stubName |-> name]
    ELSE LET hasPrefix == Includes(name, ":")
             prefix == SplitFirst(name, ":")
             localName == IF hasPrefix THEN SplitSecond(name, ":").text ELSE name
             resolved == hasPrefix /\ IsDef(currentSchema)
                         /\ Has(currentSchema, "xmlns")
                         /\ HasKey(currentSchema.xmlns, prefix)
                         /\ Get(currentSchema.xmlns, prefix) # ""
             key == IF resolved
                    THEN NsKey(Get(currentSchema.xmlns, prefix), localName)
                    ELSE localName
         IN  IF HasKey(ctx.types, key) THEN Get(ctx.types, key)
             ELSE FindLocal(ctx.types, localName)

(***************************************************************************)
(* XMLGenerator (lib/generator.js).  this = [ctx, config, nsMap,           *)
(* substitutions]; config, nsMap and substitutions are functions on        *)
(* strings.  The filterPath argument is passed along by the code and never *)
(* read, so it is left out.  d is the depth of the call stack: a call      *)
(* deeper than MaxStack raises RangeError, which nothing catches.          *)
(***************************************************************************)
XMLGenerator(schemaContext, config, nsMap, substitutions) ==
    [ctx |-> schemaContext, config |-> config, nsMap |-> nsMap,
     substitutions |-> substitutions]
RangeError == Thrown("RangeError: Maximum call stack size exceeded")
SchemaOf(def) == IF Has(def, "_schema") THEN def._schema ELSE Undefined

getValueFromConfig(this, path) ==
    IF path \in DOMAIN this.config THEN this.config[path] ELSE Undefined
hasConfigPrefix(this, prefix) ==
    \E k \in DOMAIN this.config : StartsWith(k, prefix)
isMandatory(el) == AttrSet(el, "minOccurs") /\ el.minOccurs # "0"
getPrefix(this, ns) ==
    IF ns = "" THEN ""
    ELSE IF ns \in DOMAIN this.nsMap THEN this.nsMap[ns] ELSE ""
\* def['@_targetNamespace'] || (def._schema ? def._schema['@_targetNamespace'] : null)
NamespaceOf(def) ==
    IF AttrSet(def, "targetNamespace") THEN def.targetNamespace
    ELSE IF IsDef(SchemaOf(def)) /\ Has(SchemaOf(def), "targetNamespace")
    THEN SchemaOf(def).targetNamespace
    ELSE ""
QualifiedKey(this, def, name) ==
    LET prefix == getPrefix(this, NamespaceOf(def))
    IN  IF prefix # "" THEN prefix \o ":" \o name ELSE name
\* LeafValue reading the value of a key that merely has the path as prefix
\* when no key equals the path
LeafValueByPrefix(this, currentPath) ==
    LET val == getValueFromConfig(this, currentPath)
        longer == {k \in DOMAIN this.config : StartsWith(k, currentPath)}
    IN  IF val # Undefined THEN val
        ELSE IF longer # {} THEN this.config[CHOOSE k \in longer : TRUE]
        ELSE Null
\* the leaf branches of processElement
LeafValue(this, currentPath) ==
    LET val == getValueFromConfig(this, currentPath)
    IN  IF val # Undefined THEN val ELSE Null

RECURSIVE attributeLoop(_, _, _, _)
\* the forEach of processAttributes
attributeLoop(this, attributes, currentPath, resultObj) ==
    IF attributes = <<>> THEN resultObj
    ELSE LET attr == Head(attributes)
             val == getValueFromConfig(this, currentPath \o "/@" \o attr.name)
         IN  IF ~AttrSet(attr, "name")
             THEN attributeLoop(this, Tail(attributes), currentPath, resultObj)
             ELSE IF AttrSet(attr, "fixed")
             THEN attributeLoop(this, Tail(attributes), currentPath,
                                Put(resultObj, "@_" \o attr.name, Str(attr.fixed)))
             ELSE IF val # Undefined
             THEN attributeLoop(this, Tail(attributes), currentPath,
                                Put(resultObj, "@_" \o attr.name, val))
             ELSE attributeLoop(this, Tail(attributes), currentPath, resultObj)
processAttributes(this, parentDef, currentPath, resultObj) ==
    attributeLoop(this, ensureArray(parentDef, "attribute"), currentPath, resultObj)

\* ResolveChild giving a substituted element the schema document of the
\* element the ref names
ResolveChildInRefSchema(this, el) ==
    LET ref == IF el.ref \in DOMAIN this.substitutions
                  /\ this.substitutions[el.ref] # ""
               THEN this.substitutions[el.ref] ELSE el.ref
        byFull == getElement(this.ctx, ref)
        byLocal == IF Includes(ref, ":")
                   THEN getElement(this.ctx, SplitSecond(ref, ":").text)
                   ELSE Null
        named == getElement(this.ctx, el.ref)
        found == IF IsDef(byFull) THEN byFull ELSE byLocal
    IN  IF IsDef(found) /\ IsDef(named) THEN WithSchema(found, SchemaOf(named))
        ELSE found
\* the element a child declaration stands for: the declaration itself, or
\* the target of its ref after substitution; Null when the ref resolves to
\* nothing
ResolveChild(this, el) ==
    LET ref == IF el.ref \in DOMAIN this.substitutions
                  /\ this.substitutions[el.ref] # ""
               THEN this.substitutions[el.ref] ELSE el.ref
        byFull == getElement(this.ctx, ref)
        byLocal == IF Includes(ref, ":")
                   THEN getElement(this.ctx, SplitSecond(ref, ":").text)
                   ELSE Null
    IN  IF IsDef(byFull) THEN byFull ELSE byLocal
\* maxOccurs === 'unbounded' || parseInt(maxOccurs) > 1
IsArrayDecl(el) ==
    Has(el, "maxOccurs") /\ (el.maxOccurs = "unbounded" \/ ParseInt(el.maxOccurs) > 1)
\* Merge moving a key that result already holds behind the keys it holds
\* alone
MergeMovingKeys(result, sub) ==
    IF IsThrown(result) THEN result
    ELSE IF IsThrown(sub) THEN sub
    ELSE IF sub.kind = "object"
    THEN LET Alone(e) == ~HasKey(sub.entries, e.k)
         IN  Obj(SelectSeq(result.entries, Alone) \o sub.entries)
    ELSE result
\* Object.assign(result, sub) where either may be an exception in flight
Merge(result, sub) ==
    IF IsThrown(result) THEN result
    ELSE IF IsThrown(sub) THEN sub
    ELSE IF sub.kind = "object" THEN Obj(Assign(result.entries, sub.entries))
    ELSE result
\* NullIfEmpty handing an object without keys on as it is
KeepEmpty(result) == result
\* an object with no keys is reported as null
NullIfEmpty(result) ==
    IF IsThrown(result) THEN result
    ELSE IF Len(result.entries) > 0 THEN result ELSE Null

RECURSIVE processElement(_, _, _, _)
RECURSIVE processComplexType(_, _, _, _)
RECURSIVE processComplexTypeExtensionFirst(_, _, _, _)
RECURSIVE processGroup(_, _, _, _)
RECURSIVE arrayLoop(_, _, _, _, _, _, _, _)
RECURSIVE arrayLoopSkippingGaps(_, _, _, _, _, _, _, _)
RECURSIVE elementLoop(_, _, _, _, _, _)
RECURSIVE elementLoopStoppingAtMissing(_, _, _, _, _, _)
RECURSIVE elementLoopExclusive(_, _, _, _, _, _)
RECURSIVE nestedLoop(_, _, _, _, _)

\* the type definition processElement determines for an element: the type
\* its type attribute names, or its inline complexType or simpleType
TypeOf(this, elementDef) ==
    IF AttrSet(elementDef, "type")
    THEN findType(this.ctx, elementDef.type, SchemaOf(elementDef))
    ELSE IF Has(elementDef, "complexType")
    THEN WithSchema(elementDef.complexType, SchemaOf(elementDef))
    ELSE IF Has(elementDef, "simpleType")
    THEN WithSchema(elementDef.simpleType, SchemaOf(elementDef))
    ELSE Null
\* dispatchType taking only a restriction for a simple type and handing a
\* union or a list to processComplexType
dispatchTypeRestrictionOnly(this, typeDef, currentPath, d) ==
    IF d > MaxStack THEN RangeError
    ELSE IF ~IsDef(typeDef) THEN LeafValue(this, currentPath)
    ELSE IF Has(typeDef, "builtIn") THEN LeafValue(this, currentPath)
    ELSE IF ~Has(typeDef, "complexContent") /\ Has(typeDef, "restriction")
    THEN LeafValue(this, currentPath)
    ELSE processComplexType(this, typeDef, currentPath, d + 1)
\* the branches of processElement on the type definition
dispatchType(this, typeDef, currentPath, d) ==
    IF d > MaxStack THEN RangeError
    ELSE IF ~IsDef(typeDef) THEN LeafValue(this, currentPath)
    ELSE IF Has(typeDef, "builtIn") THEN LeafValue(this, currentPath)
    ELSE IF ~Has(typeDef, "complexContent")
            /\ (Has(typeDef, "restriction") \/ Has(typeDef, "union")
                \/ Has(typeDef, "list"))
    THEN LeafValue(this, currentPath)
    ELSE processComplexType(this, typeDef, currentPath, d + 1)
processElement(this, elementDef, currentPath, d) ==
    dispatchType(this, TypeOf(this, elementDef), currentPath, d)

\* the base type an extension names, resolved in the schema of the type
BaseOf(this, typeDef) ==
    IF AttrSet(typeDef.complexContent.extension, "base")
    THEN findType(this.ctx, typeDef.complexContent.extension.base, SchemaOf(typeDef))
    ELSE Null
\* the content of the base type, null when the base is not found
processBase(this, baseDef, currentPath, d) ==
    IF IsDef(baseDef) THEN processComplexType(this, baseDef, currentPath, d) ELSE Null
\* processComplexType with the extension's content model merged before the
\* base type's content
processComplexTypeExtensionFirst(this, typeDef, currentPath, d) ==
    IF d > MaxStack THEN RangeError
    ELSE IF Has(typeDef, "complexContent")
    THEN IF Has(typeDef.complexContent, "extension")
         THEN NullIfEmpty(Merge(
                Merge(Obj(processAttributes(this, typeDef.complexContent.extension,
                                            currentPath, <<>>)),
                      processGroup(this, WithSchema(typeDef.complexContent.extension,
                                                    SchemaOf(typeDef)),
                                   currentPath, d + 1)),
                processBase(this, BaseOf(this, typeDef), currentPath, d + 1)))
         ELSE Null
    ELSE NullIfEmpty(Merge(Obj(processAttributes(this, typeDef, currentPath, <<>>)),
                           processGroup(this, typeDef, currentPath, d + 1)))
processComplexType(this, typeDef, currentPath, d) ==
    IF d > MaxStack THEN RangeError
    ELSE IF Has(typeDef, "complexContent")
    THEN IF Has(typeDef.complexContent, "extension")
         THEN NullIfEmpty(Merge(
                Merge(Obj(processAttributes(this, typeDef.complexContent.extension,
                                            currentPath, <<>>)),
                      processBase(this, BaseOf(this, typeDef), currentPath, d + 1)),
                processGroup(this, WithSchema(typeDef.complexContent.extension,
                                              SchemaOf(typeDef)),
                             currentPath, d + 1)))
         ELSE Null
    ELSE NullIfEmpty(Merge(Obj(processAttributes(this, typeDef, currentPath, <<>>)),
                           processGroup(this, typeDef, currentPath, d + 1)))

\* what the while loop over the indices of an array-typed child collects:
\* one record per pushed item, with the index and path it was built from and
\* its content
Scan(items) == [kind |-> "scan", pushed |-> items]
\* `${currentPath}/${elName}[${idx}]`
IndexedPathOf(currentPath, elName, idx) ==
    currentPath \o "/" \o elName \o "[" \o ToString(idx) \o "]"
\* the fallback to the path without index, for the first item only
IsSingletonAt(this, currentPath, elName, idx) ==
    /\ idx = 0
    /\ ~hasConfigPrefix(this, IndexedPathOf(currentPath, elName, idx))
    /\ hasConfigPrefix(this, currentPath \o "/" \o elName)
ItemPath(this, currentPath, elName, idx) ==
    IF IsSingletonAt(this, currentPath, elName, idx)
    THEN currentPath \o "/" \o elName
    ELSE IndexedPathOf(currentPath, elName, idx)
\* arrayLoop with a scan that steps over an index without configuration
\* instead of stopping at it
arrayLoopSkippingGaps(this, el, elementDef, elName, currentPath, idx, items, d) ==
    LET indexedPath == IndexedPathOf(currentPath, elName, idx)
        childContent == processElement(this, elementDef, indexedPath, d + 1)
        pushed == Append(items, [idx |-> idx, path |-> indexedPath,
                                 content |-> childContent])
        later == \E k \in DOMAIN this.config : \E j \in (idx + 1)..(idx + 3) :
                    StartsWith(k, IndexedPathOf(currentPath, elName, j))
    IN  IF ~hasConfigPrefix(this, indexedPath)
        THEN IF later
             THEN arrayLoopSkippingGaps(this, el, elementDef, elName, currentPath,
                                        idx + 1, items, d)
             ELSE Scan(items)
        ELSE IF IsThrown(childContent) THEN childContent
        ELSE IF Truthy(childContent)
        THEN arrayLoopSkippingGaps(this, el, elementDef, elName, currentPath,
                                   idx + 1, pushed, d)
        ELSE Scan(items)
\* one iteration of the while loop, on the item path and the content
\* processElement returned for it
scanItem(this, el, elementDef, elName, currentPath, idx, items, d, isSingleton, itemPath, childContent) ==
    IF ~hasConfigPrefix(this, itemPath) THEN Scan(items)
    ELSE IF IsThrown(childContent) THEN childContent
    ELSE IF Truthy(childContent)
    THEN IF isSingleton
         THEN Scan(Append(items, [idx |-> idx, path |-> itemPath,
                                  content |-> childContent]))
         ELSE arrayLoop(this, el, elementDef, elName, currentPath, idx + 1,
                        Append(items, [idx |-> idx, path |-> itemPath,
                                       content |-> childContent]), d)
    ELSE IF isMandatory(el) THEN Scan(items)
    ELSE Scan(items)
\* the while loop over the indices of an array-typed child, from idx on
arrayLoop(this, el, elementDef, elName, currentPath, idx, items, d) ==
    scanItem(this, el, elementDef, elName, currentPath, idx, items, d,
             IsSingletonAt(this, currentPath, elName, idx),
             ItemPath(this, currentPath, elName, idx),
             processElement(this, elementDef,
                            ItemPath(this, currentPath, elName, idx), d + 1))

\* if (!elementDef._schema && parentDef._schema) elementDef = { ...elementDef,
\* _schema: parentDef._schema }
InheritSchema(elementDef, parentDef) ==
    IF IsDef(elementDef) /\ ~IsDef(SchemaOf(elementDef)) /\ IsDef(SchemaOf(parentDef))
    THEN WithSchema(elementDef, SchemaOf(parentDef))
    ELSE elementDef
\* the element definition a child declaration is processed with: the
\* declaration itself or the target of its ref; null when the ref resolves
\* to nothing
ChildElement(this, el, parentDef) ==
    InheritSchema(IF AttrSet(el, "ref") THEN ResolveChild(this, el) ELSE el, parentDef)
ElName(elementDef) == IF Has(elementDef, "name") THEN elementDef.name ELSE ""
\* if (items.length > 0) result[key] = items
emitArray(result, key, scan) ==
    IF IsThrown(scan) THEN scan
    ELSE IF Len(scan.pushed) > 0
    THEN Obj(Put(result.entries, key,
                 Arr([i \in 1..Len(scan.pushed) |-> scan.pushed[i].content])))
    ELSE result
\* if (childContent !== null) result[key] = childContent
emitSingleton(result, key, childContent) ==
    IF IsThrown(childContent) THEN childContent
    ELSE IF childContent # Null THEN Obj(Put(result.entries, key, childContent))
    ELSE result
\* the body of the forEach over the direct child declarations
emitChild(this, el, elementDef, currentPath, result, d) ==
    IF ~IsDef(elementDef) \/ ElName(elementDef) = "" THEN result
    ELSE IF IsArrayDecl(el)
    THEN emitArray(result, QualifiedKey(this, elementDef, ElName(elementDef)),
                   arrayLoop(this, el, elementDef, ElName(elementDef), currentPath,
                             0, <<>>, d))
    ELSE emitSingleton(result, QualifiedKey(this, elementDef, ElName(elementDef)),
                       processElement(this, elementDef,
                                      currentPath \o "/" \o ElName(elementDef), d + 1))
\* elementLoop leaving the loop at the first child whose ref resolves to
\* nothing
elementLoopStoppingAtMissing(this, parentDef, elements, currentPath, result, d) ==
    IF elements = <<>> \/ IsThrown(result) THEN result
    ELSE IF ~IsDef(ChildElement(this, Head(elements), parentDef)) THEN result
    ELSE elementLoopStoppingAtMissing(this, parentDef, Tail(elements), currentPath,
                     emitChild(this, Head(elements),
                               ChildElement(this, Head(elements), parentDef),
                               currentPath, result, d),
                     d)
\* sequence || choice || all
GroupKey(parentDef) ==
    IF Has(parentDef, "sequence") THEN "sequence"
    ELSE IF Has(parentDef, "choice") THEN "choice"
    ELSE IF Has(parentDef, "all") THEN "all"
    ELSE ""
\* elementLoop ending the loop over the alternatives of a choice once one
\* of them is emitted
elementLoopExclusive(this, parentDef, elements, currentPath, result, d) ==
    IF elements = <<>> \/ IsThrown(result) THEN result
    ELSE IF GroupKey(parentDef) = "choice" /\ result.entries # <<>> THEN result
    ELSE elementLoopExclusive(this, parentDef, Tail(elements), currentPath,
                     emitChild(this, Head(elements),
                               ChildElement(this, Head(elements), parentDef),
                               currentPath, result, d),
                     d)
\* the forEach over the direct child declarations (step 1 of processGroup)
elementLoop(this, parentDef, elements, currentPath, result, d) ==
    IF elements = <<>> \/ IsThrown(result) THEN result
    ELSE elementLoop(this, parentDef, Tail(elements), currentPath,
                     emitChild(this, Head(elements),
                               ChildElement(this, Head(elements), parentDef),
                               currentPath, result, d),
                     d)

\* processNested reading the configuration one path segment down, under the
\* name of the nested content model
processNestedUnderSegment(this, def, currentPath, d) ==
    IF IsDef(def)
    THEN processGroup(this, def, currentPath \o "/" \o GroupKey(def), d)
    ELSE Null
\* the content of a nested content-model holder, null for a group reference
\* that resolves to nothing
processNested(this, def, currentPath, d) ==
    IF IsDef(def) THEN processGroup(this, def, currentPath, d) ELSE Null
\* the forEach loops over nested choices, sequences and group references
\* (steps 2 to 4 of processGroup)
nestedLoop(this, defs, currentPath, result, d) ==
    IF defs = <<>> \/ IsThrown(result) THEN result
    ELSE nestedLoop(this, Tail(defs), currentPath,
                    Merge(result, processNested(this, Head(defs), currentPath, d + 1)),
                    d)
\* { 'choice': ch, _schema: parentDef._schema } for each nested choice
ChoiceHolders(choices, schemaRef) ==
    [i \in 1..Len(choices) |-> [choice |-> choices[i], _schema |-> schemaRef]]
\* { 'sequence': seq, _schema: parentDef._schema } for each nested sequence
SequenceHolders(sequences, schemaRef) ==
    [i \in 1..Len(sequences) |-> [sequence |-> sequences[i], _schema |-> schemaRef]]
\* this.ctx.getGroup(g['@_ref']) for each group reference
GroupDefs(this, groups) ==
    [i \in 1..Len(groups) |->
        getGroup(this.ctx, IF Has(groups[i], "ref") THEN groups[i].ref ELSE "")]
\* the four steps of processGroup over the container
processContainer(this, parentDef, container, currentPath, d) ==
    nestedLoop(this, GroupDefs(this, ensureArray(container, "group")), currentPath,
        nestedLoop(this,
                   SequenceHolders(ensureArray(container, "sequence"),
                                   SchemaOf(parentDef)),
                   currentPath,
            nestedLoop(this,
                       ChoiceHolders(ensureArray(container, "choice"),
                                     SchemaOf(parentDef)),
                       currentPath,
                elementLoop(this, parentDef, ensureArray(container, "element"),
                            currentPath, Obj(<<>>), d),
                d),
            d),
        d)
processGroup(this, parentDef, currentPath, d) ==
    IF d > MaxStack THEN RangeError
    ELSE IF GroupKey(parentDef) = "" THEN Obj(<<>>)
    ELSE processContainer(this, parentDef, parentDef[GroupKey(parentDef)],
                          currentPath, d)

\* the root element: by the name as given, else by the part after its colon
RootElementOf(this, rootElementName) ==
    IF IsDef(getElement(this.ctx, rootElementName))
    THEN getElement(this.ctx, rootElementName)
    ELSE getElement(this.ctx,
                    IF SplitSecond(rootElementName, ":").defined
                       /\ SplitSecond(rootElementName, ":").text # ""
                    THEN SplitSecond(rootElementName, ":").text
                    ELSE rootElementName)
\* if (content) content['@_xsi:type'] = typeOverride
stampType(content, typeOverride) ==
    IF content.kind = "object"
    THEN Obj(Put(content.entries, "@_xsi:type", Str(typeOverride)))
    ELSE content
\* rootContent stamping the content of the element's own declared type
\* when the override type is found
rootContentOfOwnType(this, rootEl, typeDef, startPath, typeOverride) ==
    IF typeOverride # "" /\ IsDef(typeDef)
    THEN stampType(processElement(this, rootEl, startPath, 1), typeOverride)
    ELSE processElement(this, rootEl, startPath, 1)
\* the content of the root: of the override type when it is found, of the
\* root element otherwise
rootContent(this, rootEl, typeDef, startPath, typeOverride) ==
    IF typeOverride # "" /\ IsDef(typeDef)
    THEN stampType(processComplexType(this, typeDef, startPath, 1), typeOverride)
    ELSE processElement(this, rootEl, startPath, 1)
\* if (content === null) return null; return { [rootKey]: content }
wrapRoot(rootKey, content) ==
    IF IsThrown(content) THEN content
    ELSE IF content = Null THEN Null
    ELSE Obj(<< [k |-> rootKey, v |-> content] >>)
\* generate once the root element is looked up
generateFrom(this, rootEl, rootElementName, startPath, typeOverride) ==
    IF ~IsDef(rootEl) THEN Thrown("Root element not found: " \o rootElementName)
    ELSE wrapRoot(QualifiedKey(this, rootEl, rootElementName),
                  rootContent(this, rootEl,
                              findType(this.ctx, typeOverride, SchemaOf(rootEl)),
                              startPath, typeOverride))
\* the main entry point; typeOverride = "" stands for no override
generate(this, rootElementName, startPath, typeOverride) ==
    generateFrom(this, RootElementOf(this, rootElementName), rootElementName,
                 startPath, typeOverride)

(***************************************************************************)
(* The inputs of the model: flat configurations over a universe of paths,  *)
(* namespace maps, substitution tables and generate invocations.           *)
(***************************************************************************)
ItemKeys == {"Root/Items[" \o ToString(i) \o "]/v" : i \in 0..MaxIdx}
TagKeys == {"Root/Tag[0]"}
RootKeys ==
    {"Root/Child", "Root/Child/name", "Root/Other", "Root/Items/v", "Root/Items[0]/w",
     "Root/Tag"}
        \cup ItemKeys \cup TagKeys
PushKeys ==
    {"Push/@version", "Push/version", "Push/MDRDevice/@id", "Push/MDRDevice/@lang",
     "Push/MDRDevice/code", "Push/MDRDevice/model", "Push/MDRDevice/Info/note",
     "Push/Device/code", "Push/payload", "Push/optA", "Push/optB", "Push/note",
     "Push/note/v"}
ConfigKeys == RootKeys \cup PushKeys
\* a configuration addresses one document: its keys lie under one root
KeyUniverses == {RootKeys, PushKeys}
\* the scalars a configuration may hold under a key
ValuesFor(key) ==
    IF key \in TagKeys THEN {Str("a"), Num("0")}
    ELSE IF key = "Root/Tag" THEN {Num("0")}
    ELSE IF key = "Root/Items[1]/v" THEN {Str("b")}
    ELSE IF key \in {"Root/Child", "Root/Child/name"} THEN {Str("X")}
    ELSE IF key = "Push/version" THEN {Str("b")}
    ELSE {Str("a")}
RECURSIVE KeySetsUpTo(_, _)
\* the sets of at most n keys of a universe
KeySetsUpTo(universe, n) ==
    IF n = 0 THEN {{}}
    ELSE KeySetsUpTo(universe, n - 1)
            \cup {S \cup {k} : S \in KeySetsUpTo(universe, n - 1), k \in universe}
AllValues == UNION {ValuesFor(k) : k \in ConfigKeys}
Configs ==
    UNION {{f \in [S -> AllValues] : \A k \in S : f[k] \in ValuesFor(k)} :
              S \in UNION {KeySetsUpTo(U, MaxKeys) : U \in KeyUniverses}}
EmptyMap == [k \in {} |-> ""]
\* the namespace map and substitution table a generator is built with:
\* neither, or both
Setups ==
    {[nsMap |-> EmptyMap, substitutions |-> EmptyMap],
     [nsMap |-> ("urn:m" :> "m") @@ ("urn:d" :> "d"),
      substitutions |-> ("d:Device" :> "MDRDevice")]}
Call(rootElementName, startPath, typeOverride) ==
    [rootElementName |-> rootElementName, startPath |-> startPath,
     typeOverride |-> typeOverride]
NoCall == Call("", "", "")
Calls ==
    {Call("Root", "Root", ""), Call("m:Root", "Root", ""), Call("Push", "Push", ""),
     Call("MDRDevice", "Push/MDRDevice", ""),
     Call("Device", "Push/MDRDevice", "d:MDRDeviceType"),
     Call("Device", "Push/MDRDevice", "d:NoSuchType"),
     Call("Tree", "Tree", ""), Call("Nope", "Root", "")}

(***************************************************************************)
(* The command line (index.js).  options holds the --type and --mode       *)
(* arguments as commander parsed them, "" for an argument that was not     *)
(* given, and where the program stands: parsed, validated, generating or   *)
(* exited.                                                                 *)
(***************************************************************************)
UpperTable ==
    [a |-> "A", b |-> "B", c |-> "C", d |-> "D", e |-> "E", f |-> "F", g |-> "G",
     h |-> "H", i |-> "I", j |-> "J", k |-> "K", l |-> "L", m |-> "M", n |-> "N",
     o |-> "O", p |-> "P", q |-> "Q", r |-> "R", s |-> "S", t |-> "T", u |-> "U",
     v |-> "V", w |-> "W", x |-> "X", y |-> "Y", z |-> "Z"]
RECURSIVE toUpperCase(_)
toUpperCase(str) ==
    IF str = "" THEN ""
    ELSE (IF SubSeq(str, 1, 1) \in DOMAIN UpperTable
          THEN UpperTable[SubSeq(str, 1, 1)] ELSE SubSeq(str, 1, 1))
             \o toUpperCase(SubSeq(str, 2, Len(str)))
\* str.replace(pattern, replacement) with a string pattern: the first
\* occurrence only
replace(str, pattern, replacement) ==
    IF Includes(str, pattern)
    THEN SplitFirst(str, pattern) \o replacement \o SplitSecond(str, pattern).text
    ELSE str
validTypes == {"DEVICE", "UDI_DI", "BASIC_UDI"}
validModes == {"POST", "PATCH"}
validCombinations ==
    [DEVICE |-> {"POST"}, UDI_DI |-> {"POST", "PATCH"}, BASIC_UDI |-> {"PATCH"}]
normalizedType(opts) == replace(toUpperCase(opts.type), "-", "_")
normalizedMode(opts) == IF opts.mode # "" THEN toUpperCase(opts.mode) ELSE "POST"
Options(type, mode, phase, exitCode) ==
    [type |-> type, mode |-> mode, phase |-> phase, exitCode |-> exitCode]
\* process.exit(1)
Exit(opts) == [opts EXCEPT !.phase = "exited", !.exitCode = 1]
\* the input validation, up to the update of options
validate(opts) ==
    IF opts.type = "" THEN Exit(opts)
    ELSE IF normalizedType(opts) \notin validTypes THEN Exit(opts)
    ELSE IF normalizedMode(opts) \notin validModes THEN Exit(opts)
    ELSE IF normalizedMode(opts) \notin validCombinations[normalizedType(opts)]
    THEN Exit(opts)
    ELSE Options(normalizedType(opts), normalizedMode(opts), "validated", 0)
\* the values of --type and --mode tried: the ones the option help and the
\* README name, other spellings, and none
TypeArguments ==
    {"", "DEVICE", "device", "UDI_DI", "udi-di", "udi_di", "BASIC_UDI", "basic-udi",
     "Basic-UDI", "BasicUDI", "UDIDI", "All"}
ModeArguments == {"POST", "PATCH", "post", "patch", "PUT", ""}
\* no command line: the generator is driven directly
NoOptions == Options("", "", "generating", 0)

(***************************************************************************)
(* The state: one SchemaContext and one XMLGenerator built over it, and    *)
(* the last generate invocation on the generator with what it returned or  *)
(* raised; repeated tells that the invocation before it had the same       *)
(* arguments.                                                              *)
(***************************************************************************)
VARIABLES ctx, generator, call, result, repeated, options
vars == <<ctx, generator, call, result, repeated, options>>

\* the generator with its reference to the schema context followed
This == XMLGenerator(ctx, generator.config, generator.nsMap, generator.substitutions)

Init ==
    /\ ctx = SchemaContext(BasePath)
    /\ \E config \in Configs, setup \in Setups :
          generator = [config |-> config, nsMap |-> setup.nsMap,
                       substitutions |-> setup.substitutions]
    /\ call = NoCall
    /\ result = Undefined
    /\ repeated = FALSE
    /\ options = NoOptions

\* schemaLoader.loadSchema(filePath)
LoadSchema(filePath) ==
    /\ ctx' = loadSchema(ctx, filePath)
    /\ call' = NoCall
    /\ result' = Undefined
    /\ repeated' = FALSE
    /\ UNCHANGED <<generator, options>>

\* AfterGenerate for a generator that consumes the entries under the start
\* path
AfterGenerateConsuming(g, c) ==
    [g EXCEPT !.config =
        [k \in {key \in DOMAIN g.config : ~StartsWith(key, c.startPath)} |->
            g.config[k]]]
\* what an invocation of generate leaves in the fields of the generator:
\* generate and the methods it calls assign no field of this
AfterGenerate(g, c) == g

\* IndexAfterGenerate for a generator that writes the inherited _schema into
\* the inline child declarations of the indexed types instead of into a copy
IndexAfterGenerateInPlace(index, c) ==
    [index EXCEPT !.types =
        [i \in DOMAIN @ |->
            IF Has(@[i].v, "sequence") /\ Has(@[i].v.sequence, "element")
            THEN [k |-> @[i].k,
                  v |-> [@[i].v EXCEPT !.sequence.element =
                            [j \in DOMAIN @ |-> InheritSchema(@[j], index.types[i].v)]]]
            ELSE @[i]]]
\* what an invocation of generate leaves in the Schema Index: the
\* definitions it reads are never assigned to, a child declaration that
\* needs its parent's _schema is copied first
IndexAfterGenerate(index, c) == index

\* generator.generate(rootElementName, startPath, null, typeOverride); main
\* invokes the generator after it has loaded the schema.  An invocation is
\* made on the generator as loadSchema left it, or repeats the last one:
\* what an invocation returns depends on the index and the generator only,
\* so these steps reach every state that any order of invocations reaches
Generate(c) ==
    /\ ctx.processedFiles # {}
    /\ call \in {NoCall, c}
    /\ call' = c
    /\ result' = generate(This, c.rootElementName, c.startPath, c.typeOverride)
    /\ generator' = AfterGenerate(generator, c)
    /\ repeated' = (c = call)
    /\ ctx' = IndexAfterGenerate(ctx, c)
    /\ UNCHANGED options

Next ==
    \/ \E filePath \in EntryFiles : LoadSchema(filePath)
    \/ \E c \in Calls : Generate(c)

Spec == Init /\ [][Next]_vars

(***************************************************************************)
(* The program started from the command line: the arguments are parsed,    *)
(* validated, and main loads the schema when the validation let them pass. *)
(***************************************************************************)
CliInit ==
    /\ ctx = SchemaContext(BasePath)
    /\ generator = [config |-> EmptyMap, nsMap |-> EmptyMap, substitutions |-> EmptyMap]
    /\ call = NoCall
    /\ result = Undefined
    /\ repeated = FALSE
    /\ \E type \in TypeArguments, mode \in ModeArguments :
          options = Options(type, mode, "parsed", 0)

\* the input validation of index.js
Validate ==
    /\ options.phase = "parsed"
    /\ options' = validate(options)
    /\ UNCHANGED <<ctx, generator, call, result, repeated>>

\* main: schemaLoader.loadSchema(options.schema)
Main ==
    /\ options.phase = "validated"
    /\ options' = [options EXCEPT !.phase = "generating"]
    /\ ctx' = loadSchema(ctx, "xsd/main.xsd")
    /\ UNCHANGED <<generator, call, result, repeated>>

CliNext == Validate \/ Main

CliSpec == CliInit /\ [][CliNext]_vars

(***************************************************************************)
(* Vocabulary of the properties.                                           *)
(***************************************************************************)
\* the invocations whose root is the element Root of main.xsd
RootCalls == {Call("Root", "Root", ""), Call("m:Root", "Root", "")}
\* the content generate wrapped under the root key
Content == result.entries[1].v
\* the child declarations of Root's content model, once main.xsd is indexed
RootDef == getElement(ctx, "Root")
RootChildren ==
    IF IsDef(RootDef) THEN RootDef.complexType.sequence.element ELSE <<>>
ArrayChildren == {i \in 1..Len(RootChildren) : IsArrayDecl(RootChildren[i])}
ChildDef(i) == WithSchema(RootChildren[i], SchemaOf(RootDef))
ChildKey(i) == QualifiedKey(This, ChildDef(i), RootChildren[i].name)
IndexedPath(i, idx) ==
    "Root/" \o RootChildren[i].name \o "[" \o ToString(idx) \o "]"
\* what processGroup's scan of the array child i of Root pushes
ScanOf(i) ==
    arrayLoop(This, RootChildren[i], ChildDef(i), RootChildren[i].name, "Root",
              0, <<>>, 3).pushed
\* the part of an output key after its namespace prefix
LocalKey(key) == IF Includes(key, ":") THEN SplitSecond(key, ":").text ELSE key

(***************************************************************************)
(* C1  Array contiguity.  The scan of an array-typed child pushes items    *)
(* for a gap-free run of indices starting at 0, and the emitted array is   *)
(* that run: the n-th item is built from index n - 1.  With configuration  *)
(* under name[0] and name[2] and none under name[1], only the item of      *)
(* index 0 is emitted.                                                     *)
(***************************************************************************)
GapAtOne(i) ==
    /\ hasConfigPrefix(This, IndexedPath(i, 0))
    /\ ~hasConfigPrefix(This, IndexedPath(i, 1))
    /\ hasConfigPrefix(This, IndexedPath(i, 2))
C1_ArrayContiguity ==
    \A i \in ArrayChildren :
        LET scan == ScanOf(i)
        IN  /\ \A n \in 1..Len(scan) : scan[n].idx = n - 1
            /\ GapAtOne(i) =>
                  /\ Len(scan) <= 1
                  /\ \A n \in 1..Len(scan) : scan[n].path = IndexedPath(i, 0)
                  /\ Truthy(processElement(This, ChildDef(i), IndexedPath(i, 0), 4))
                        => Len(scan) = 1
            /\ (call \in RootCalls /\ result.kind = "object") =>
                  IF Len(scan) > 0
                  THEN Get(Content.entries, ChildKey(i))
                          = Arr([n \in 1..Len(scan) |-> scan[n].content])
                  ELSE ~HasKey(Content.entries, ChildKey(i))
C1_Witness ==
    /\ call \in RootCalls
    /\ result.kind = "object"
    /\ \E i \in ArrayChildren :
          /\ GapAtOne(i)
          /\ HasKey(Content.entries, ChildKey(i))
          /\ Len(Get(Content.entries, ChildKey(i)).items) = 1

(***************************************************************************)
(* C2  Absence propagation.  Every element of the output tree, at any      *)
(* depth, lies on a path that some configuration key has as prefix: an     *)
(* element without configuration under its path is absent with its whole   *)
(* subtree.  An item of an array lies on the indexed path name[i] or, for  *)
(* the first item, on the bare path name.                                  *)
(***************************************************************************)
RECURSIVE Backed(_, _)
Backed(node, path) ==
    CASE node.kind = "object" ->
            \A n \in 1..Len(node.entries) :
                LET e == node.entries[n]
                    childPath == path \o "/" \o LocalKey(e.k)
                IN  \/ StartsWith(e.k, "@_")
                    \/ /\ hasConfigPrefix(This, childPath)
                       /\ Backed(e.v, childPath)
      [] node.kind = "array" ->
            \A n \in 1..Len(node.items) :
                LET indexed == path \o "[" \o ToString(n - 1) \o "]"
                IN  \/ /\ hasConfigPrefix(This, indexed)
                       /\ Backed(node.items[n], indexed)
                    \/ /\ n = 1
                       /\ Backed(node.items[n], path)
      [] OTHER -> TRUE
C2_AbsencePropagation ==
    result.kind = "object" =>
        /\ hasConfigPrefix(This, call.startPath)
        /\ Backed(Content, call.startPath)

(***************************************************************************)
(* C3  Monotonic inclusion.  Every node of the tree generated for the      *)
(* configuration is still there, at the same position and with the same    *)
(* value, in the tree generated for the configuration extended with one    *)
(* entry at a path it did not have.                                        *)
(***************************************************************************)
RECURSIVE Included(_, _)
Included(a, b) ==
    CASE a.kind = "object" ->
            /\ b.kind = "object"
            /\ \A n \in 1..Len(a.entries) :
                  /\ HasKey(b.entries, a.entries[n].k)
                  /\ Included(a.entries[n].v, Get(b.entries, a.entries[n].k))
      [] a.kind = "array" ->
            /\ b.kind = "array"
            /\ Len(a.items) <= Len(b.items)
            /\ \A n \in 1..Len(a.items) : Included(a.items[n], b.items[n])
      [] OTHER -> a = b
\* the generator over the configuration extended with path -> value
Extended(path, value) ==
    XMLGenerator(ctx, (path :> value) @@ generator.config, generator.nsMap,
                 generator.substitutions)
C3_MonotonicInclusion ==
    result.kind = "object" =>
        \A path \in ConfigKeys \ DOMAIN generator.config :
            \A value \in ValuesFor(path) :
                Included(result, generate(Extended(path, value), call.rootElementName,
                                          call.startPath, call.typeOverride))

(***************************************************************************)
(* C4  Attribute precedence.  Whatever the configuration, the node that    *)
(* processComplexType returns for a complex type carries, for each         *)
(* attribute the type (or its extension element) declares with a fixed     *)
(* value, the entry @_name with exactly that value.                        *)
(***************************************************************************)
\* the paths complex types are processed at
TypePaths == {"Push/MDRDevice", "Push/Device", "Push/MDRDevice/Info"}
IsExtension(typeDef) ==
    Has(typeDef, "complexContent") /\ Has(typeDef.complexContent, "extension")
\* the attributes processComplexType hands to processAttributes
DeclaredAttributes(typeDef) ==
    IF IsExtension(typeDef)
    THEN ensureArray(typeDef.complexContent.extension, "attribute")
    ELSE IF Has(typeDef, "complexContent") THEN <<>>
    ELSE ensureArray(typeDef, "attribute")
C4_FixedAttributes ==
    \A t \in 1..Len(ctx.types) : \A path \in TypePaths :
        LET typeDef == ctx.types[t].v
            attributes == DeclaredAttributes(typeDef)
            node == processComplexType(This, typeDef, path, 1)
        IN  \A a \in 1..Len(attributes) :
                Has(attributes[a], "fixed") =>
                    /\ node.kind = "object"
                    /\ Get(node.entries, "@_" \o attributes[a].name)
                          = Str(attributes[a].fixed)

(***************************************************************************)
(* C5  Extension field order.  In the node processComplexType returns for  *)
(* a type that extends a base type, every key of the base type's content   *)
(* comes before every other key contributed by the extension's own content *)
(* model.                                                                  *)
(***************************************************************************)
Position(es, key) == CHOOSE i \in 1..Len(es) : es[i].k = key
EntriesOf(node) == IF node.kind = "object" THEN node.entries ELSE <<>>
BaseContent(typeDef, path) ==
    LET base == findType(ctx, typeDef.complexContent.extension.base, SchemaOf(typeDef))
    IN  IF IsDef(base) THEN processComplexType(This, base, path, 2) ELSE Null
ExtensionInfo(typeDef, path) ==
    processGroup(This, WithSchema(typeDef.complexContent.extension, SchemaOf(typeDef)),
                 path, 2)
\* every key of the base content that the node has precedes every other
\* key of the extension's content that the node has
BaseKeysFirst(node, baseKeys, extKeys) ==
    node.kind = "object" =>
        \A b \in 1..Len(baseKeys) : \A e \in 1..Len(extKeys) :
            /\ HasKey(node.entries, baseKeys[b])
            /\ HasKey(node.entries, extKeys[e])
            /\ baseKeys[b] # extKeys[e] =>
                  Position(node.entries, baseKeys[b])
                      < Position(node.entries, extKeys[e])
\* the formula reads the index and the generator only: it is stated where
\* loadSchema left them and after the invocation on the extending element
C5_ExtensionFieldOrder ==
    \A t \in 1..Len(ctx.types) : \A path \in TypePaths :
        (call \in {NoCall, Call("MDRDevice", "Push/MDRDevice", "")}
            /\ IsExtension(ctx.types[t].v)) =>
            BaseKeysFirst(processComplexType(This, ctx.types[t].v, path, 1),
                          Keys(EntriesOf(BaseContent(ctx.types[t].v, path))),
                          Keys(EntriesOf(ExtensionInfo(ctx.types[t].v, path))))
C5_Witness ==
    /\ call = Call("MDRDevice", "Push/MDRDevice", "")
    /\ result.kind = "object"
    /\ {"Push/MDRDevice/code", "Push/MDRDevice/model"} \subseteq DOMAIN generator.config
    /\ \E b \in 1..Len(Content.entries) : \E e \in 1..Len(Content.entries) :
          /\ LocalKey(Content.entries[b].k) = "code"
          /\ LocalKey(Content.entries[e].k) = "model"
          /\ b < e

(***************************************************************************)
(* C6  Array materialisation.  When index 0 of an array-typed child is     *)
(* configured, the emitted array holds the processed content of the        *)
(* indices 0..k-1, k being the first index without configuration under     *)
(* name[k] or with null content, and the key is emitted iff k >= 1; so a   *)
(* configured item with a non-null scalar content (string, number or       *)
(* boolean) is accumulated.  Root/Items[0]/v = a, Root/Items[1]/v = b      *)
(* gives Root.Items = [{v: a}, {v: b}].                                    *)
(***************************************************************************)
ItemContent(i, idx) == processElement(This, ChildDef(i), IndexedPath(i, idx), 4)
RECURSIVE FirstEnd(_, _)
FirstEnd(i, k) ==
    IF ~hasConfigPrefix(This, IndexedPath(i, k)) \/ ItemContent(i, k) = Null
    THEN k ELSE FirstEnd(i, k + 1)
ItemsExample ==
    ("Root/Items[0]/v" :> Str("a")) @@ ("Root/Items[1]/v" :> Str("b"))
ItemsExampleTree ==
    Obj(<< [k |-> "Root",
            v |-> Obj(<< [k |-> "Items",
                          v |-> Arr(<< Obj(<< [k |-> "v", v |-> Str("a")] >>),
                                       Obj(<< [k |-> "v", v |-> Str("b")] >>) >>)] >>)] >>)
C6_ArrayMaterialisation ==
    (call \in RootCalls /\ ~IsThrown(result)) =>
        /\ \A i \in ArrayChildren :
              LET k == FirstEnd(i, 0)
              IN  hasConfigPrefix(This, IndexedPath(i, 0)) =>
                      IF k >= 1
                      THEN /\ result.kind = "object"
                           /\ Get(Content.entries, ChildKey(i))
                                 = Arr([n \in 1..k |-> ItemContent(i, n - 1)])
                      ELSE result.kind = "object"
                              => ~HasKey(Content.entries, ChildKey(i))
        /\ (generator.config = ItemsExample /\ generator.nsMap = EmptyMap
                /\ call = Call("Root", "Root", ""))
              => result = ItemsExampleTree

(***************************************************************************)
(* C7  Worked example.  With the configuration {"Root/Child/name": "X"},   *)
(* Root having the mandatory string child Child and the optional child     *)
(* Other, generate("Root", "Root") returns {Root: {Child: "X"}}.           *)
(***************************************************************************)
ChildExample == ("Root/Child/name" :> Str("X"))
ChildExampleTree ==
    Obj(<< [k |-> "Root", v |-> Obj(<< [k |-> "Child", v |-> Str("X")] >>)] >>)
ExampleInvocation ==
    /\ IsDef(RootDef)
    /\ generator.nsMap = EmptyMap
    /\ call = Call("Root", "Root", "")
C7_WorkedExample ==
    (ExampleInvocation /\ generator.config = ChildExample) => result = ChildExampleTree
\* C7 as amended: the value of the string leaf Child is read under the key
\* that equals its path, Root/Child; with that key generate returns
\* {Root: {Child: "X"}}, and with Root/Child/name it returns null
C7_WorkedExampleAmended ==
    ExampleInvocation =>
        /\ generator.config = ("Root/Child" :> Str("X")) => result = ChildExampleTree
        /\ generator.config = ChildExample => result = Null
C7_Witness ==
    /\ ExampleInvocation
    /\ generator.config = ("Root/Child" :> Str("X"))
    /\ result = ChildExampleTree

(***************************************************************************)
(* C8  generate raises an error if and only if the root element name       *)
(* resolves to no element of the Schema Index, by exact key or by local    *)
(* name.                                                                   *)
(***************************************************************************)
RootResolvable(rootElementName) ==
    \E n \in 1..Len(ctx.elements) :
        LET key == ctx.elements[n].k
        IN  \/ key = rootElementName
            \/ key = LocalKey(rootElementName)
            \/ EndsWith(key, "}" \o LocalKey(rootElementName))
C8_OnlyRootRaises ==
    call # NoCall => (IsThrown(result) <=> ~RootResolvable(call.rootElementName))

(***************************************************************************)
(* C9  generate returns null exactly when no configuration entry matched   *)
(* in the root element's subtree, that is when the tree would hold no      *)
(* value taken from the configuration; otherwise it returns a mapping with *)
(* the single key prefix:rootName, or rootName when the Namespace Map has  *)
(* no prefix for the root element's target namespace.                      *)
(***************************************************************************)
RECURSIVE HasConfigValue(_)
HasConfigValue(node) ==
    CASE node.kind = "object" ->
            \E n \in 1..Len(node.entries) : HasConfigValue(node.entries[n].v)
      [] node.kind = "array" ->
            \E n \in 1..Len(node.items) : HasConfigValue(node.items[n])
      [] OTHER -> node \in AllValues
ExpectedRootKey ==
    LET rootEl == getElement(ctx, call.rootElementName)
        ns == rootEl._schema.targetNamespace
    IN  IF ns \in DOMAIN generator.nsMap
        THEN generator.nsMap[ns] \o ":" \o call.rootElementName
        ELSE call.rootElementName
C9_NullIffNoMatch ==
    (call # NoCall /\ ~IsThrown(result)) =>
        IF result = Null THEN TRUE
        ELSE /\ HasConfigValue(result)
             /\ result.kind = "object"
             /\ Keys(result.entries) = <<ExpectedRootKey>>

OverrideCall ==
    /\ call # NoCall
    /\ call.typeOverride # ""
    /\ IsDef(RootElementOf(This, call.rootElementName))
OverrideType ==
    findType(ctx, call.typeOverride,
             SchemaOf(RootElementOf(This, call.rootElementName)))
ContentIs(content) ==
    IF content = Null THEN result = Null
    ELSE result.kind = "object" /\ Content = content
C11_TypeOverride ==
    OverrideCall =>
        LET typed == processComplexType(This, OverrideType, call.startPath, 1)
            own == processElement(This, RootElementOf(This, call.rootElementName),
                                  call.startPath, 1)
        IN  IF IsDef(OverrideType)
            THEN ContentIs(IF typed.kind = "object"
                           THEN Obj(Put(typed.entries, "@_xsi:type",
                                        Str(call.typeOverride)))
                           ELSE typed)
            ELSE /\ ContentIs(own)
                 /\ result.kind = "object" => ~HasKey(Content.entries, "@_xsi:type")
C11_Witness ==
    /\ OverrideCall
    /\ IsDef(OverrideType)
    /\ result.kind = "object"
    /\ Get(Content.entries, "@_xsi:type") = Str(call.typeOverride)
    /\ HasKey(Content.entries, "@_version")
    /\ "Push/MDRDevice/model" \in DOMAIN generator.config

(***************************************************************************)
(* C12  Output key qualification and substitution.  Every child element    *)
(* that processGroup emits has the key prefix:localName, where prefix is   *)
(* the Namespace Map entry of the target namespace of the schema document  *)
(* that declares the resolved element, and the bare local name when the    *)
(* map has no such entry.  A ref redirected by the Substitution Table is   *)
(* emitted under the concrete element's name and the prefix of the         *)
(* concrete element's document, and is filled from the configuration       *)
(* under the concrete name.  Checked on the children of Push (main.xsd)    *)
(* and on the children of the device under it (types of dev.xsd).          *)
(***************************************************************************)
PushCall == Call("Push", "Push", "")
\* the target namespace of the document that declares the global element
\* name, and that of the document of the enclosing type for a local one
DeclaringNamespace(name, enclosing) ==
    LET owners == {f \in DOMAIN Files :
                      \E i \in DOMAIN ensureArray(Files[f].schema, "element") :
                          ensureArray(Files[f].schema, "element")[i].name = name}
    IN  IF owners = {} THEN Files[enclosing].schema.targetNamespace
        ELSE Files[CHOOSE f \in owners : TRUE].schema.targetNamespace
ExpectedKey(name, enclosing) ==
    LET ns == DeclaringNamespace(name, enclosing)
    IN  IF ns \in DOMAIN generator.nsMap
        THEN generator.nsMap[ns] \o ":" \o name ELSE name
\* the element the ref d:Device of PushType stands for
DeviceName ==
    IF "d:Device" \in DOMAIN generator.substitutions
    THEN generator.substitutions["d:Device"] ELSE "Device"
ElementKeys(node) ==
    {node.entries[i].k :
        i \in {j \in DOMAIN node.entries : ~StartsWith(node.entries[j].k, "@_")}}
DeviceNode == Get(Content.entries, ExpectedKey(DeviceName, "/w/xsd/main.xsd"))
C12_KeyQualification ==
    (call = PushCall /\ result.kind = "object" /\ Content.kind = "object") =>
        /\ ElementKeys(Content) \subseteq
              {ExpectedKey(n, "/w/xsd/main.xsd") :
                  n \in {DeviceName, "payload", "optA", "optB", "note"}}
        /\ \A n \in {"payload", "optA", "optB", "note"} :
              ("Push/" \o n) \in DOMAIN generator.config =>
                  Get(Content.entries, ExpectedKey(n, "/w/xsd/main.xsd"))
                      = generator.config["Push/" \o n]
        /\ ("Push/" \o DeviceName \o "/code") \in DOMAIN generator.config =>
              /\ DeviceNode.kind = "object"
              /\ Get(DeviceNode.entries, ExpectedKey("code", "/w/xsd/dev.xsd"))
                    = generator.config["Push/" \o DeviceName \o "/code"]
        /\ HasKey(Content.entries, ExpectedKey(DeviceName, "/w/xsd/main.xsd")) =>
              /\ DeviceNode.kind = "object"
              /\ ElementKeys(DeviceNode) \subseteq
                    {ExpectedKey(n, "/w/xsd/dev.xsd") : n \in {"code", "Info", "model"}}
C12_Witness ==
    /\ call = PushCall
    /\ result.kind = "object"
    /\ Content.kind = "object"
    /\ "d:Device" \in DOMAIN generator.substitutions
    /\ HasKey(Content.entries, "m:MDRDevice")
    /\ HasKey(Get(Content.entries, "m:MDRDevice").entries, "d:model")
    /\ HasKey(Content.entries, "m:payload")

(***************************************************************************)
(* C13  Lookup key invariant of the Schema Index.  In each of the element, *)
(* type and group tables the entry under a bare local name is the first    *)
(* entity registered with that local name: no entity loaded later, from a  *)
(* document with or without target namespace, replaces it; and every       *)
(* entity of a document with a target namespace is found under its         *)
(* {namespace}localName key.  The keys of a table keep the order of their  *)
(* first assignment, so the first entity registered with a local name is   *)
(* the one under the earliest key with that local name.                    *)
(***************************************************************************)
Tables == {"elements", "types", "groups"}
\* the local name of a key of a table: the part after "}" of {namespace}name
LocalOfKey(key) == IF Includes(key, "}") THEN SplitSecond(key, "}").text ELSE key
\* the position of the earliest key of the table with the local name
FirstRegistered(table, localName) ==
    CHOOSE i \in DOMAIN table :
        /\ LocalOfKey(table[i].k) = localName
        /\ \A j \in DOMAIN table : LocalOfKey(table[j].k) = localName => i <= j
\* what the documents processed so far declare for a table
DeclaredIn(f, table) ==
    IF table = "elements" THEN ensureArray(Files[f].schema, "element")
    ELSE IF table = "groups" THEN ensureArray(Files[f].schema, "group")
    ELSE ensureArray(Files[f].schema, "complexType")
             \o ensureArray(Files[f].schema, "simpleType")
C13_BareNameFirstWins ==
    \A t \in Tables :
        /\ \A i \in DOMAIN ctx[t] :
              ~Includes(ctx[t][i].k, "}") =>
                  ctx[t][i].v = ctx[t][FirstRegistered(ctx[t], ctx[t][i].k)].v
        /\ \A f \in ctx.processedFiles :
              AttrSet(Files[f].schema, "targetNamespace") =>
                  \A n \in DOMAIN DeclaredIn(f, t) :
                      Get(ctx[t], NsKey(Files[f].schema.targetNamespace,
                                        DeclaredIn(f, t)[n].name))
                          = WithSchema(DeclaredIn(f, t)[n], SchemaAttrs(Files[f].schema))

(***************************************************************************)
(* C14  findType prefix scoping.  A name starting with xs: or xsd: gives   *)
(* the built-in sentinel whatever the index holds.  For another prefixed   *)
(* name p:T the prefix is resolved with the xmlns declarations of the      *)
(* referencing document; when that gives a namespace N and a type is       *)
(* registered under {N}T, findType returns the type that the document with *)
(* target namespace N declares, also when another document registered a    *)
(* type with local name T before it.  Otherwise the result is found by     *)
(* local name over all types: a type with local name T when one is         *)
(* registered, nothing when none is.  The index changes in loadSchema      *)
(* only, so the lookups are made where loadSchema left it and after the    *)
(* invocation that resolves d:InfoType for the device.                     *)
(***************************************************************************)
TypeNames ==
    {"xs:string", "xsd:int", "d:InfoType", "m:InfoType", "m:DeviceType", "q:InfoType",
     "InfoType", "d:Ghost"}
\* the schema documents a reference may stand in, and no document
ReferencingSchemas == {SchemaAttrs(Files[f].schema) : f \in DOMAIN Files} \cup {Undefined}
\* the namespace the prefix of the name is bound to in the document, "" if none
PrefixNamespace(name, schema) ==
    IF Includes(name, ":") /\ IsDef(schema) /\ HasKey(schema.xmlns, SplitFirst(name, ":"))
    THEN Get(schema.xmlns, SplitFirst(name, ":")) ELSE ""
\* the type that the document with the target namespace declares under the name
DeclaredType(ns, localName) ==
    LET f == CHOOSE g \in DOMAIN Files :
                 /\ AttrSet(Files[g].schema, "targetNamespace")
                 /\ Files[g].schema.targetNamespace = ns
                 /\ \E j \in DOMAIN DeclaredIn(g, "types") :
                        DeclaredIn(g, "types")[j].name = localName
        i == CHOOSE j \in DOMAIN DeclaredIn(f, "types") :
                 DeclaredIn(f, "types")[j].name = localName
    IN  WithSchema(DeclaredIn(f, "types")[i], SchemaAttrs(Files[f].schema))
C14_PrefixScoping ==
    call \in {NoCall, PushCall} =>
    \A name \in TypeNames, schema \in ReferencingSchemas :
        LET found == findType(ctx, name, schema)
            ns == PrefixNamespace(name, schema)
            localName == LocalName(name)
        IN  IF StartsWith(name, "xs:") \/ StartsWith(name, "xsd:")
            THEN found = [isSimple |-> TRUE, builtIn |-> TRUE, stubName |-> name]
            ELSE IF ns # "" /\ HasKey(ctx.types, NsKey(ns, localName))
            THEN found = DeclaredType(ns, localName)
            ELSE IF \E i \in DOMAIN ctx.types : LocalOfKey(ctx.types[i].k) = localName
            THEN IsDef(found) /\ found.name = localName
            ELSE found = Undefined
\* plain.xsd and main.xsd registered InfoType before dev.xsd did, and the
\* device's Info, declared with d:InfoType in dev.xsd, has the note that
\* dev.xsd's InfoType declares
C14_Witness ==
    /\ HasKey(ctx.types, "{urn:d}InfoType")
    /\ ctx.types[FirstRegistered(ctx.types, "InfoType")].k = "InfoType"
    /\ findType(ctx, "d:InfoType", SchemaAttrs(DevXsd.schema)) = DeclaredType("urn:d", "InfoType")
    /\ call = PushCall
    /\ result.kind = "object"
    /\ Content.kind = "object"
    /\ HasKey(Content.entries, "m:MDRDevice")
    /\ HasKey(Get(Content.entries, "m:MDRDevice").entries, "d:Info")
    /\ Get(Get(Get(Content.entries, "m:MDRDevice").entries, "d:Info").entries, "d:note") = Str("a")

(***************************************************************************)
(* C15  loadSchema is idempotent per resolved absolute path and terminates *)
(* on cyclic imports.  main.xsd and dev.xsd import each other and          *)
(* plain.xsd imports itself: loadSchema returns, no file is read and       *)
(* parsed twice, every file read is recorded as processed, and a further   *)
(* loadSchema for a path that resolves to a processed file, however the    *)
(* path is spelled, leaves the element, type, group and schema tables (and *)
(* the history of reads) as they are.  Stated for the states loadSchema    *)
(* leaves.                                                                 *)
(***************************************************************************)
\* spellings of the paths of the schema files, relative to the base path
\* and absolute
LoadPaths ==
    {"xsd/main.xsd", "xsd/dev.xsd", "xsd/plain.xsd", "/w/xsd/main.xsd",
     "xsd/../xsd/dev.xsd", "./xsd/plain.xsd", "xsd/./main.xsd"}
ReadFiles == {ctx.reads[i] : i \in DOMAIN ctx.reads}
C15_LoadIdempotence ==
    call = NoCall =>
    /\ \A i, j \in DOMAIN ctx.reads : ctx.reads[i] = ctx.reads[j] => i = j
    /\ ReadFiles = ctx.processedFiles
    /\ \A filePath \in LoadPaths :
          pathResolve(BasePath, filePath) \in ReadFiles =>
              loadSchema(ctx, filePath) = ctx
\* both files of the import cycle and the self-importing file were read,
\* reached from dev.xsd through the cycle
C15_Witness ==
    /\ call = NoCall
    /\ ctx.reads = <<"/w/xsd/dev.xsd", "/w/xsd/main.xsd", "/w/xsd/plain.xsd",
                     "/w/xsd/part.xsd">>
    /\ HasKey(ctx.elements, "{urn:m}Root")
    /\ HasKey(ctx.elements, "{urn:d}Tree")
    /\ loadSchema(ctx, "/w/xsd/main.xsd") = ctx

(***************************************************************************)
(* C16  A missing import is absorbed.  main.xsd imports missing.xsd, which *)
(* does not exist, between dev.xsd and plain.xsd.  Once a document is      *)
(* processed, its own elements, types and groups are indexed, every        *)
(* import or include target that exists is processed and indexed as well,  *)
(* and a target that does not exist is not recorded as processed;          *)
(* loadSchema returns the context and raises nothing.  Stated for the      *)
(* states loadSchema leaves.                                               *)
(***************************************************************************)
\* the files a processed document refers to by import and include
RefTargets(f) ==
    LET refs == ensureArray(Files[f].schema, "import")
                    \o ensureArray(Files[f].schema, "include")
    IN  {pathResolve(BasePath, pathJoin(pathDirname(f), refs[i].schemaLocation)) :
            i \in {j \in DOMAIN refs : AttrSet(refs[j], "schemaLocation")}}
\* the key a document's entity is stored under
OwnKey(f, name) ==
    IF AttrSet(Files[f].schema, "targetNamespace")
    THEN NsKey(Files[f].schema.targetNamespace, name) ELSE name
\* the entities the document declares are in the tables
Indexed(f) ==
    \A t \in Tables : \A n \in DOMAIN DeclaredIn(f, t) :
        Get(ctx[t], OwnKey(f, DeclaredIn(f, t)[n].name))
            = WithSchema(DeclaredIn(f, t)[n], SchemaAttrs(Files[f].schema))
C16_MissingImportAbsorbed ==
    call = NoCall =>
    /\ ctx.processedFiles \subseteq DOMAIN Files
    /\ \A f \in ctx.processedFiles :
          /\ Indexed(f)
          /\ \A target \in RefTargets(f) :
                IF target \in DOMAIN Files
                THEN target \in ctx.processedFiles /\ Indexed(target)
                ELSE target \notin ctx.processedFiles /\ target \notin ReadFiles
\* main.xsd was loaded: the missing file is among its targets, and the
\* include that follows it in the list was read and indexed
C16_Witness ==
    /\ call = NoCall
    /\ ctx.reads = <<"/w/xsd/main.xsd", "/w/xsd/dev.xsd", "/w/xsd/plain.xsd",
                     "/w/xsd/part.xsd">>
    /\ "/w/xsd/missing.xsd" \in RefTargets("/w/xsd/main.xsd")
    /\ "/w/xsd/missing.xsd" \notin ctx.processedFiles
    /\ Indexed("/w/xsd/main.xsd")
    /\ Indexed("/w/xsd/plain.xsd")

(***************************************************************************)
(* C17  getNamespaces collision rule.  When two loaded schema roots        *)
(* declare the same prefix with different URIs, the mapping getNamespaces  *)
(* returns gives the prefix the URI of the declaration met first, in the   *)
(* order in which getNamespaces visits the roots; a later root's           *)
(* declaration does not replace it.                                        *)
(***************************************************************************)
\* the roots, in the order of Object.values(this.schemas), that declare the prefix
Declaring(prefix) ==
    {i \in DOMAIN ctx.schemas : HasKey(ctx.schemas[i].v.xmlns, prefix)}
FirstDeclaration(prefix) ==
    Get(ctx.schemas[CHOOSE i \in Declaring(prefix) :
                        \A j \in Declaring(prefix) : i <= j].v.xmlns, prefix)
C17_FirstWriteWins ==
    \A prefix \in {"xs", "m", "d"} :
        Declaring(prefix) # {} =>
            Get(getNamespaces(ctx), prefix) = FirstDeclaration(prefix)

DocumentedTypes == {"BasicUDI", "UDIDI", "All"}
DocumentedModes == {"POST", "PATCH"}
C19_DocumentedUsageAccepted ==
    (options.type \in DocumentedTypes /\ options.mode \in DocumentedModes) =>
        options.phase # "exited"

(***************************************************************************)
(* C20  Attribute lookup with fallback.  For a declared attribute without  *)
(* a fixed value (version of PushType) processAttributes emits @_version   *)
(* with the configuration value under Push/@version when that key is       *)
(* present, otherwise with the value under Push/version when that key is   *)
(* present, and emits no @_version when neither is.                        *)
(***************************************************************************)
C20_AttributeFallback ==
    (call = PushCall /\ result.kind = "object" /\ Content.kind = "object") =>
        IF "Push/@version" \in DOMAIN generator.config
        THEN Get(Content.entries, "@_version") = generator.config["Push/@version"]
        ELSE IF "Push/version" \in DOMAIN generator.config
        THEN Get(Content.entries, "@_version") = generator.config["Push/version"]
        ELSE ~HasKey(Content.entries, "@_version")

(***************************************************************************)
(* C21  Singleton fallback for arrays.  For an array-typed child, when no  *)
(* configuration key has name[0] as prefix and some key has the bare path  *)
(* of the child as prefix, the element is processed once at the bare path  *)
(* and, when that yields content, the emitted array is exactly that one    *)
(* item: the scan does not go on to index 1.  In every other case each     *)
(* item of the scan is built from its indexed path.                        *)
(***************************************************************************)
BarePath(i) == "Root/" \o RootChildren[i].name
FallsBack(i) ==
    /\ ~hasConfigPrefix(This, IndexedPath(i, 0))
    /\ hasConfigPrefix(This, BarePath(i))
BareContent(i) == processElement(This, ChildDef(i), BarePath(i), 4)
C21_SingletonFallback ==
    \A i \in ArrayChildren :
        IF FallsBack(i)
        THEN /\ ScanOf(i) = IF BareContent(i) # Null
                            THEN << [idx |-> 0, path |-> BarePath(i),
                                     content |-> BareContent(i)] >>
                            ELSE << >>
             /\ (call \in RootCalls /\ BareContent(i) # Null) =>
                   /\ result.kind = "object"
                   /\ Get(Content.entries, ChildKey(i)) = Arr(<< BareContent(i) >>)
        ELSE \A n \in 1..Len(ScanOf(i)) : ScanOf(i)[n].path = IndexedPath(i, n - 1)

(***************************************************************************)
(* C22  Leaf dispatch.  processElement on an element without a resolvable  *)
(* type definition, with a built-in type (xs: or xsd:), or with a simple   *)
(* type that is a restriction, a union or a list returns the configuration *)
(* value under the key equal to the element's path, unchanged, and null    *)
(* when that key is absent, also when a longer key has the path as prefix; *)
(* an element of any other type gets what processComplexType returns for   *)
(* its type.  The formula reads the index and the generator only.          *)
(***************************************************************************)
\* the child declarations of an indexed type, with the type's _schema
ChildrenOfType(key, extension) ==
    IF ~HasKey(ctx.types, key) THEN {}
    ELSE LET typeDef == Get(ctx.types, key)
             elements == IF extension
                         THEN typeDef.complexContent.extension.sequence.element
                         ELSE typeDef.sequence.element
         IN  {InheritSchema(elements[i], typeDef) : i \in DOMAIN elements}
NamedChildren(key, extension, names) ==
    {el \in ChildrenOfType(key, extension) : Has(el, "name") /\ el.name \in names}
\* elements of each scalar kind: undeclared type, union, list, inline
\* restriction, xsd: built-in, unresolvable type, named restriction, xs:
\* built-in
LeafElements ==
    ChildrenOfType("{urn:d}ScalarsType", FALSE)
        \cup NamedChildren("{urn:m}PushType", FALSE, {"payload"})
        \cup NamedChildren("{urn:d}MDRDeviceType", TRUE, {"model"})
        \cup NamedChildren("{urn:d}DeviceType", FALSE, {"code"})
\* elements of a complex type
ComplexElements ==
    NamedChildren("{urn:d}DeviceType", FALSE, {"Info"})
        \cup (IF HasKey(ctx.elements, "{urn:m}MDRDevice")
              THEN {Get(ctx.elements, "{urn:m}MDRDevice")} ELSE {})
\* the paths an element is processed at: every configured key, and paths
\* that are proper prefixes of configured keys
ProbePaths ==
    (DOMAIN generator.config)
        \cup {"Root/Child", "Push", "Push/MDRDevice", "Push/MDRDevice/Info", "Root/Items[0]"}
C22_LeafDispatch ==
    call = PushCall =>
        /\ \A el \in LeafElements : \A path \in ProbePaths :
               processElement(This, el, path, 1)
                   = IF path \in DOMAIN generator.config
                     THEN generator.config[path] ELSE Null
        /\ \A el \in ComplexElements : \A path \in ProbePaths :
               processElement(This, el, path, 1)
                   = processComplexType(This, findType(ctx, el.type, SchemaOf(el)),
                                        path, 2)
\* the Push tree holds the values of a child with an unresolvable type and
\* of a child whose type is a restriction, and the union child has a value
\* at a configured path
C22_Witness ==
    /\ call = PushCall
    /\ result.kind = "object"
    /\ Content.kind = "object"
    /\ Get(Content.entries, "m:payload") = Str("a")
    /\ HasKey(Content.entries, "m:MDRDevice")
    /\ Get(Get(Content.entries, "m:MDRDevice").entries, "d:model") = Str("a")
    /\ \E el \in LeafElements :
          /\ el.name = "either"
          /\ processElement(This, el, "Push/payload", 1) = Str("a")

(***************************************************************************)
(* C23  Termination of generate.  Every invocation of generate on a finite *)
(* index and a finite configuration returns, also when a complex type has  *)
(* a singleton child of its own type: the call stack is never exhausted,   *)
(* and the scan of an array-typed child pushes at most as many items as    *)
(* the configuration has keys.                                             *)
(***************************************************************************)
C23_GenerateTerminates ==
    /\ call # NoCall => result # RangeError
    /\ \A i \in ArrayChildren : Len(ScanOf(i)) <= Cardinality(DOMAIN generator.config)


(***************************************************************************)
(* C24  Unresolvable ref is skipped.  A child declaration whose ref, after *)
(* substitution, names no element by full or by local name emits nothing,  *)
(* and the content model is processed exactly as if that child were not    *)
(* declared: the other child elements, the nested choices and sequences    *)
(* and the group references give the same keys and values.                 *)
(***************************************************************************)
PushTypeKey == "{urn:m}PushType"
\* the child declaration is processed: it has no ref, or its ref resolves
Resolves(el) == ~AttrSet(el, "ref") \/ IsDef(ResolveChild(This, el))
\* the type without the child declarations whose ref resolves to nothing
WithoutUnresolvable(typeDef) ==
    [typeDef EXCEPT !.sequence.element = SelectSeq(@, Resolves)]
\* the content emitted a key with the local name
EmitsLocal(content, name) ==
    \E i \in DOMAIN content.entries : LocalKey(content.entries[i].k) = name
C24_UnresolvableRefSkipped ==
    (call = PushCall /\ HasKey(ctx.types, PushTypeKey)) =>
        LET typeDef == Get(ctx.types, PushTypeKey)
            kept == WithoutUnresolvable(typeDef)
            content == processComplexType(This, kept, "Push", 2)
        IN  /\ Len(kept.sequence.element) < Len(typeDef.sequence.element)
            /\ processGroup(This, typeDef, "Push", 2) = processGroup(This, kept, "Push", 2)
            /\ processComplexType(This, typeDef, "Push", 2) = content
            /\ content.kind = "object" /\ ~EmitsLocal(content, "Nowhere")
            /\ ContentIs(content)
\* Push is generated and the child declared after the unresolvable ref and
\* a key of a group reference are emitted
C24_Witness ==
    /\ call = PushCall
    /\ result.kind = "object"
    /\ Content.kind = "object"
    /\ ~Resolves(Get(ctx.types, PushTypeKey).sequence.element[2])
    /\ EmitsLocal(Content, "payload")
    /\ EmitsLocal(Content, "note")

(***************************************************************************)
(* C25  Flattening of nested content models.  The keys of a choice, a      *)
(* sequence or a group reference nested directly inside a content model    *)
(* are merged into the result object of the direct child elements and are  *)
(* read at the same configuration path: the result is that of declaring    *)
(* the nested elements as direct children after the declared ones.  A      *)
(* group reference that resolves to nothing contributes no key.            *)
(***************************************************************************)
RECURSIVE ElementsOf(_)
\* the element declarations of the nested content models, in order
ElementsOf(defs) ==
    IF defs = <<>> THEN <<>>
    ELSE (IF IsDef(Head(defs)) THEN Head(defs)[GroupKey(Head(defs))].element ELSE <<>>)
             \o ElementsOf(Tail(defs))
\* the type with its nested choices, sequences and group references
\* replaced by direct child declarations
Flattened(typeDef) ==
    [name |-> typeDef.name, _schema |-> typeDef._schema,
     sequence |->
        [element |->
            typeDef.sequence.element
                \o ElementsOf(ChoiceHolders(typeDef.sequence.choice, SchemaOf(typeDef)))
                \o ElementsOf(SequenceHolders(typeDef.sequence.sequence, SchemaOf(typeDef)))
                \o ElementsOf(GroupDefs(This, typeDef.sequence.group))]]
\* the value of the key with the local name, Null without such a key
GetLocal(content, name) ==
    IF EmitsLocal(content, name)
    THEN content.entries[CHOOSE i \in DOMAIN content.entries :
                             LocalKey(content.entries[i].k) = name].v
    ELSE Null
ConfigAt(path) ==
    IF path \in DOMAIN generator.config THEN generator.config[path] ELSE Null
C25_NestedFlattening ==
    (call = PushCall /\ HasKey(ctx.types, PushTypeKey)) =>
        LET typeDef == Get(ctx.types, PushTypeKey)
            content == processGroup(This, typeDef, "Push", 2)
        IN  /\ \E i \in DOMAIN typeDef.sequence.group :
                   ~IsDef(getGroup(ctx, typeDef.sequence.group[i].ref))
            /\ content = processGroup(This, Flattened(typeDef), "Push", 2)
            /\ GetLocal(content, "optA") = ConfigAt("Push/optA")
            /\ GetLocal(content, "optB") = ConfigAt("Push/optB")
            /\ ConfigAt("Push/note") # Null =>
                   GetLocal(content, "note") = ConfigAt("Push/note")
            /\ (ConfigAt("Push/note") = Null /\ ConfigAt("Push/note/v") # Null) =>
                   GetLocal(GetLocal(content, "note"), "v") = ConfigAt("Push/note/v")
            /\ result.kind = "object"
            /\ \A name \in {"optA", "optB", "note"} :
                   GetLocal(Content, name) = GetLocal(content, name)
\* Push is generated with a key of the nested choice and a key of the
\* nested sequence next to the keys of the direct children
C25_Witness ==
    /\ call = PushCall
    /\ result.kind = "object"
    /\ Content.kind = "object"
    /\ GetLocal(Content, "optB") = Str("a")
    /\ GetLocal(Content, "note").kind = "object"
    /\ GetLocal(GetLocal(Content, "note"), "v") = Str("a")
    /\ EmitsLocal(Content, "Device") \/ EmitsLocal(Content, "MDRDevice")

(***************************************************************************)
(* C26  getNamespaces completeness.  After any sequence of loadSchema      *)
(* calls the mapping returned by getNamespaces holds every prefix that the *)
(* root of a loaded schema document declares, also when several loaded     *)
(* documents have the same target namespace or none.                       *)
(***************************************************************************)
\* the prefixes the root of the document declares with xmlns:<prefix>
DeclaredPrefixes(f) ==
    {Files[f].schema.xmlns[i].k : i \in DOMAIN Files[f].schema.xmlns}
\* the documents loadSchema has read and parsed
LoadedDocuments == ctx.processedFiles \cap DOMAIN Files
C26_NamespacesComplete ==
    \A f \in LoadedDocuments :
        \A prefix \in DeclaredPrefixes(f) : HasKey(getNamespaces(ctx), prefix)

(***************************************************************************)
(* C27  Well-formed output.  In every tree generate returns no mapping is  *)
(* empty, no array is empty and no entry is null or undefined; a child     *)
(* whose subtree produced no content has no key.                           *)
(***************************************************************************)
RECURSIVE WellFormed(_)
\* a scalar, or a non-empty mapping or array of well-formed nodes
WellFormed(node) ==
    CASE node.kind = "object" ->
            /\ node.entries # <<>>
            /\ \A i \in DOMAIN node.entries : WellFormed(node.entries[i].v)
      [] node.kind = "array" ->
            /\ node.items # <<>>
            /\ \A i \in DOMAIN node.items : WellFormed(node.items[i])
      [] OTHER -> node.kind \in {"string", "number", "boolean"}
\* the singleton children of Root whose subtree has no content
EmptyChildren ==
    {i \in DOMAIN RootChildren \ ArrayChildren :
        processElement(This, ChildDef(i), "Root/" \o RootChildren[i].name, 4) = Null}
C27_WellFormedOutput ==
    /\ result.kind \in {"undefined", "null", "error", "object"}
    /\ result.kind = "object" => WellFormed(result)
    /\ (call \in RootCalls /\ result.kind = "object") =>
           \A i \in EmptyChildren : ~HasKey(Content.entries, ChildKey(i))
\* Root is generated with an array of item mappings while the optional
\* child Other, without configuration, has no key
C27_Witness ==
    /\ call \in RootCalls
    /\ result.kind = "object"
    /\ Content.kind = "object"
    /\ \E i \in ArrayChildren :
           /\ HasKey(Content.entries, ChildKey(i))
           /\ Get(Content.entries, ChildKey(i)).items[1].kind = "object"
    /\ \E i \in EmptyChildren : RootChildren[i].name = "Other"
    /\ \A k \in DOMAIN generator.config : ~StartsWith(k, "Root/Other")

(***************************************************************************)
(* C28  Emission order inside one content model.  The keys of the direct   *)
(* child elements come first, in declaration order, then the keys of the   *)
(* nested choices, of the nested sequences and of the group references; a  *)
(* key contributed again by a later source keeps the position it has and   *)
(* takes the later value.                                                  *)
(***************************************************************************)
\* the local names the declarations emit under, "" for a ref that resolves
\* to nothing
EmittedNames(elements, typeDef) ==
    [i \in DOMAIN elements |-> ElName(ChildElement(This, elements[i], typeDef))]
\* the position of the first declaration emitting under the name
Rank(names, name) ==
    CHOOSE i \in DOMAIN names :
        names[i] = name /\ \A j \in DOMAIN names : names[j] = name => i <= j
\* every key is declared and the keys are listed by first declaration
InDeclarationOrder(content, names) ==
    /\ \A i \in DOMAIN content.entries :
           \E j \in DOMAIN names : names[j] = LocalKey(content.entries[i].k)
    /\ \A i, j \in DOMAIN content.entries :
           i < j => Rank(names, LocalKey(content.entries[i].k))
                        < Rank(names, LocalKey(content.entries[j].k))
C28_EmissionOrder ==
    /\ (call \in {NoCall, PushCall} /\ HasKey(ctx.types, PushTypeKey)) =>
           LET typeDef == Get(ctx.types, PushTypeKey)
               content == processGroup(This, typeDef, "Push", 2)
               names == EmittedNames(Flattened(typeDef).sequence.element, typeDef)
           IN  /\ InDeclarationOrder(content, names)
               /\ (ConfigAt("Push/note") # Null /\ ConfigAt("Push/note/v") # Null) =>
                      GetLocal(content, "note") = ConfigAt("Push/note")
               /\ (call = PushCall /\ result.kind = "object") =>
                      InDeclarationOrder(Content, <<"@_version">> \o names)
    /\ (call \in RootCalls /\ result.kind = "object") =>
           InDeclarationOrder(Content, EmittedNames(RootChildren, RootDef))
\* Push is generated with optA, contributed by the nested choice and again
\* by the group reference, listed before note, which the group reference
\* declares before optA
C28_Witness ==
    /\ call = PushCall
    /\ result.kind = "object"
    /\ Content.kind = "object"
    /\ ConfigAt("Push/optA") # Null
    /\ ConfigAt("Push/note") # Null
    /\ \E i, j \in DOMAIN Content.entries :
           /\ i < j
           /\ LocalKey(Content.entries[i].k) = "optA"
           /\ LocalKey(Content.entries[j].k) = "note"

(***************************************************************************)
(* C29  No choice exclusivity.  For a choice content model a key is        *)
(* emitted for every alternative the configuration supplies content for;   *)
(* with two alternatives configured both are in the output.                *)
(***************************************************************************)
\* the nested choice of PushType as processGroup receives it
PushChoice(typeDef) == ChoiceHolders(typeDef.sequence.choice, SchemaOf(typeDef))[1]
\* the names of the alternatives of the choice
Alternatives(holder) == {holder.choice.element[i].name : i \in DOMAIN holder.choice.element}
C29_NoChoiceExclusivity ==
    (call \in {NoCall, PushCall} /\ HasKey(ctx.types, PushTypeKey)) =>
        LET holder == PushChoice(Get(ctx.types, PushTypeKey))
            content == processGroup(This, holder, "Push", 3)
        IN  /\ Cardinality(Alternatives(holder)) >= 2
            /\ content.kind = "object"
            /\ \A name \in Alternatives(holder) :
                   /\ GetLocal(content, name) = ConfigAt("Push/" \o name)
                   /\ (call = PushCall /\ result.kind = "object") =>
                          GetLocal(Content, name) = ConfigAt("Push/" \o name)
\* Push is generated with both alternatives of the choice configured and
\* both emitted
C29_Witness ==
    /\ call = PushCall
    /\ result.kind = "object"
    /\ Content.kind = "object"
    /\ ConfigAt("Push/optA") = Str("a")
    /\ ConfigAt("Push/optB") = Str("a")
    /\ EmitsLocal(Content, "optA")
    /\ EmitsLocal(Content, "optB")

(***************************************************************************)
(* The post-processing of main (index.js): recursiveFix walks the tree     *)
(* generate returned and changes it in place; the operators return the     *)
(* tree after the change.                                                  *)
(***************************************************************************)
\* delete obj[key]
Delete(es, key) == SelectSeq(es, LAMBDA e : e.k # key)
\* key.includes(':') ? key.split(':')[1] : key
localKey(key) == IF Includes(key, ":") THEN SplitSecond(key, ":").text ELSE key
versioningFields == {"version", "state", "versionDate"}
correctOrderBasicUDI ==
    << "state", "version", "versionDate",
       "riskClass", "model", "modelName", "identifier", "certificateLinks",
       "animalTissuesCells", "ARActorCode", "humanTissuesCells", "MFActorCode",
       "ARComments", "clinicalInvestigationLinks", "deviceCertificateLinks",
       "humanProductCheck", "IIb_implantable_exceptions", "medicinalProductCheck",
       "specialDevice", "type",
       "active", "administeringMedicine", "implantable", "measuringFunction",
       "reusable" >>
correctOrderUDIDIData ==
    << "state", "version", "versionDate",
       "identifier", "status",
       "additionalDescription", "basicUDIIdentifier", "MDNCodes",
       "productionIdentifier", "referenceNumber", "secondaryIdentifier", "sterile",
       "sterilization", "tradeNames", "website", "storageHandlingConditions",
       "packages", "criticalWarnings", "substatuses",
       "numberOfReuses", "relatedUDILink", "marketInfos", "deviceMarking",
       "baseQuantity", "productDesignerActor",
       "annexXVINonMedicalDeviceTypes", "annexXVIApplicable", "latex",
       "reprocessed" >>
correctOrder(key) ==
    IF EndsWith(key, "BasicUDI") THEN correctOrderBasicUDI ELSE correctOrderUDIDIData
\* k.endsWith(`:${prop}`) || k === prop
NamesProp(k, prop) == EndsWith(k, ":" \o prop) \/ k = prop
RECURSIVE findPropKey(_, _)
\* Object.keys(udi).find(...), "" when no key is found
findPropKey(es, prop) ==
    IF es = <<>> THEN ""
    ELSE IF NamesProp(Head(es).k, prop) THEN Head(es).k
    ELSE findPropKey(Tail(es), prop)
\* Object.keys and values of the node: of an array, its indices and items
OwnEntries(udi) ==
    IF udi.kind = "array"
    THEN [i \in DOMAIN udi.items |-> [k |-> ToString(i - 1), v |-> udi.items[i]]]
    ELSE udi.entries
RECURSIVE reinsert(_, _, _)
\* correctOrder.forEach moving the properties found from udi to newUdi,
\* then Object.assign(newUdi, udi)
reinsert(order, newUdi, udi) ==
    IF order = <<>> THEN Assign(newUdi, udi)
    ELSE IF findPropKey(udi, Head(order)) # ""
    THEN reinsert(Tail(order),
                  Put(newUdi, findPropKey(udi, Head(order)),
                      Get(udi, findPropKey(udi, Head(order)))),
                  Delete(udi, findPropKey(udi, Head(order))))
    ELSE reinsert(Tail(order), newUdi, udi)
\* the sender block: a service block is added, or the one under s:service
\* or service is moved to m:service and given the type as its serviceID
withServiceID(service, opts) ==
    IF service.kind = "object"
    THEN Obj(Put(service.entries, "s:serviceID", Str(opts.type)))
    ELSE service
fixSender(sender, opts) ==
    IF sender.kind # "object" THEN sender
    ELSE IF ~\E i \in DOMAIN sender.entries : EndsWith(sender.entries[i].k, "service")
    THEN Obj(Put(sender.entries, "m:service",
                 Obj(<< [k |-> "s:serviceID", v |-> Str(opts.type)],
                        [k |-> "s:serviceOperation", v |-> Str(opts.mode)] >>)))
    ELSE IF HasKey(sender.entries, "s:service") /\ Truthy(Get(sender.entries, "s:service"))
    THEN Obj(Delete(Put(sender.entries, "m:service",
                        withServiceID(Get(sender.entries, "s:service"), opts)),
                    "s:service"))
    ELSE IF HasKey(sender.entries, "service") /\ Truthy(Get(sender.entries, "service"))
    THEN Obj(Delete(Put(sender.entries, "m:service",
                        withServiceID(Get(sender.entries, "service"), opts)),
                    "service"))
    ELSE sender
\* prefix && prefix !== key ? `${prefix}:Device` : 'Device'
deviceKey(key) ==
    IF SplitFirst(key, ":") # "" /\ SplitFirst(key, ":") # key
    THEN SplitFirst(key, ":") \o ":Device"
    ELSE "Device"
\* `${prefix || 'device'}:MDRDeviceType`
deviceType(key) ==
    (IF SplitFirst(key, ":") # "" THEN SplitFirst(key, ":") ELSE "device")
        \o ":MDRDeviceType"
RECURSIVE recursiveFix(_, _)
RECURSIVE fixKeys(_, _, _)
\* the item of an MDRDevice value: its @_xsi:type is set anew, then it is
\* fixed
fixDeviceItem(item, key, opts) ==
    IF item.kind = "object"
    THEN recursiveFix(Obj(Put(Delete(item.entries, "@_xsi:type"), "@_xsi:type",
                              Str(deviceType(key)))), opts)
    ELSE item
fixDevice(val, key, opts) ==
    IF val.kind = "array"
    THEN Arr([i \in DOMAIN val.items |-> fixDeviceItem(val.items[i], key, opts)])
    ELSE fixDeviceItem(val, key, opts)
\* the sequence-ordering fix of the value under a key ending in BasicUDI
\* or UDIDIData, or the recursive call for another key
fixOrder(es, key, opts) ==
    IF (EndsWith(key, "BasicUDI") \/ EndsWith(key, "UDIDIData"))
       /\ Get(es, key).kind \in {"object", "array"}
    THEN Put(es, key,
             recursiveFix(Obj(reinsert(correctOrder(key), <<>>,
                                       OwnEntries(Get(es, key)))), opts))
    ELSE Put(es, key, recursiveFix(Get(es, key), opts))
\* the body of the forEach over Object.keys(obj)
fixKey(es, key, opts) ==
    IF opts.mode = "POST" /\ localKey(key) \in versioningFields THEN Delete(es, key)
    ELSE IF EndsWith(key, "MDRDevice")
    THEN Delete(Put(es, deviceKey(key), fixDevice(Get(es, key), key, opts)), key)
    ELSE IF EndsWith(key, "sender")
    THEN fixOrder(Put(es, key, fixSender(Get(es, key), opts)), key, opts)
    ELSE fixOrder(es, key, opts)
fixKeys(es, keys, opts) ==
    IF keys = <<>> THEN es
    ELSE fixKeys(fixKey(es, Head(keys), opts), Tail(keys), opts)
recursiveFix(obj, opts) ==
    IF obj.kind = "object" THEN Obj(fixKeys(obj.entries, Keys(obj.entries), opts))
    ELSE IF obj.kind = "array"
    THEN Arr([i \in DOMAIN obj.items |-> recursiveFix(obj.items[i], opts)])
    ELSE obj

\* the keys the mappings under a BasicUDI or UDIDIData key are made of
FixPool == {"e:version", "x:identifier", "x:model", "x:status", "x:extra"}
\* the mappings of at most MaxKeys keys, in every order of their keys
Orderings ==
    {s \in UNION {[1..n -> FixPool] : n \in 1..MaxKeys} :
        \A i, j \in DOMAIN s : i # j => s[i] # s[j]}
MappingOf(s) == Obj([i \in DOMAIN s |-> [k |-> s[i], v |-> Str(s[i])]])
\* the content of a root or of a singleton element
UdiMappings == {MappingOf(s) : s \in Orderings}
\* the value of a singleton element and of an unbounded element
UdiNodes ==
    UdiMappings
        \cup {Arr([i \in 1..n |-> MappingOf(s)]) : s \in Orderings, n \in 1..MaxIdx}
UdiKeys == {"b:BasicUDI", "d:MDRUDIDIData"}
Single(key, val) == Obj(<< [k |-> key, v |-> val] >>)
SenderObjects ==
    {Single("m:sender", Single("s:node", Str("n"))),
     Single("m:sender", Single("s:service", Single("s:serviceID", Str("x")))),
     Single("m:sender", Single("service", Single("s:serviceID", Str("x"))))}
\* the trees handed to recursiveFix: a fragment under its root key, and a
\* Push message holding a device with the fragment as a child, or a sender
XmlObjects ==
    {Single(key, node) : key \in UdiKeys, node \in UdiMappings}
        \cup {Single("m:Push", Single("d:MDRDevice", Single(key, node))) :
                  key \in UdiKeys, node \in UdiNodes}
        \cup {Single("m:Push", sender) : sender \in SenderObjects}

\* main has validated the arguments and generate has returned xmlObj
FixInit ==
    /\ ctx = SchemaContext(BasePath)
    /\ generator = [config |-> EmptyMap, nsMap |-> EmptyMap, substitutions |-> EmptyMap]
    /\ call = NoCall
    /\ repeated = FALSE
    /\ \E xmlObj \in XmlObjects, mode \in validModes :
          /\ result = xmlObj
          /\ options = Options("DEVICE", mode, "generated", 0)

\* main: recursiveFix(xmlObj)
RecursiveFix ==
    /\ options.phase = "generated"
    /\ result' = recursiveFix(result, options)
    /\ options' = [options EXCEPT !.phase = "fixed"]
    /\ UNCHANGED <<ctx, generator, call, repeated>>

FixNext == RecursiveFix

FixSpec == FixInit /\ [][FixNext]_vars

(***************************************************************************)
(* C30  The sequence-ordering fix is content-preserving.  In PATCH mode,   *)
(* for a key ending in BasicUDI or UDIDIData whose value is a mapping or   *)
(* an array of mappings, recursiveFix changes only the order of the        *)
(* entries: the node keeps its kind, an array its length, every mapping    *)
(* its keys and their values, with the keys of the hard-coded order first  *)
(* and the remaining keys after them.                                      *)
(***************************************************************************)
RECURSIVE FindKey(_, _)
RECURSIVE FindIn(_, _)
\* the value under the key, in the mapping or a mapping nested in it
FindKey(node, key) ==
    IF node.kind # "object" THEN Undefined
    ELSE IF HasKey(node.entries, key) THEN Get(node.entries, key)
    ELSE FindIn(node.entries, key)
FindIn(es, key) ==
    IF es = <<>> THEN Undefined
    ELSE IF FindKey(Head(es).v, key) # Undefined THEN FindKey(Head(es).v, key)
    ELSE FindIn(Tail(es), key)
IsMapping(v) == v.kind = "object"
IsMappingArray(v) ==
    v.kind = "array" /\ \A i \in DOMAIN v.items : IsMapping(v.items[i])
SameEntries(before, after) ==
    /\ after.kind = "object"
    /\ Len(after.entries) = Len(before.entries)
    /\ {after.entries[i] : i \in DOMAIN after.entries}
           = {before.entries[i] : i \in DOMAIN before.entries}
Listed(k, order) == \E n \in DOMAIN order : NamesProp(k, order[n])
PlaceOf(k, order) ==
    CHOOSE n \in DOMAIN order :
        NamesProp(k, order[n]) /\ \A m \in DOMAIN order : NamesProp(k, order[m]) => n <= m
\* the keys the order lists come first, as the order lists them
OrderedFirst(node, order) ==
    \A i, j \in DOMAIN node.entries :
        i < j =>
            /\ Listed(node.entries[j].k, order) => Listed(node.entries[i].k, order)
            /\ (Listed(node.entries[i].k, order) /\ Listed(node.entries[j].k, order)) =>
                   PlaceOf(node.entries[i].k, order) < PlaceOf(node.entries[j].k, order)
Preserved(key, before, after) ==
    IF IsMapping(before)
    THEN SameEntries(before, after) /\ OrderedFirst(after, correctOrder(key))
    ELSE /\ after.kind = "array"
         /\ Len(after.items) = Len(before.items)
         /\ \A i \in DOMAIN before.items : SameEntries(before.items[i], after.items[i])
====
